-------------------------- MODULE MCInvocationRecord --------------------------
(* Two overlapping calls, one failure class, at most one billed unit each.  *)
EXTENDS InvocationRecord

MCInvocations == {"i1", "i2"}
MCFailures == {"timeout"}
=============================================================================
