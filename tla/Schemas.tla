-------------------------------- MODULE Schemas --------------------------------
(***************************************************************************)
(* Output schemas.  A mode registers a schema once (modes/mod.rs), which   *)
(* must be flat; providers are sent a sanitized form of it, the grammar    *)
(* they decode under (schema/sanitize.rs), and what comes back is checked  *)
(* against the registered form (schema/validate.rs).                       *)
(*                                                                         *)
(* A schema is [props, required, closed]; props maps a name to             *)
(*   [type |-> "enum", values, oneOf]      scalars, as `enum` or as a      *)
(*                                         `oneOf` of constants            *)
(*   [type |-> "number", bounds]           the values its bounds allow     *)
(*   [type |-> "array", least, most]       of scalars, by length           *)
(*   [type |-> "object"]                   nested: not flat                *)
(***************************************************************************)
EXTENDS Naturals, FiniteSets

CONSTANTS
    Scalars,        \* the values a scalar may take
    LengthMax       \* bound: the lengths an array may have

ASSUME SchemasAssumption == LengthMax \in Nat

(* The schemas of properties.                                               *)
PropSchemas ==
    [type : {"enum"}, values : SUBSET Scalars, oneOf : BOOLEAN]
    \cup [type : {"number"}, bounds : SUBSET Scalars]
    \cup [type : {"array"}, least : Nat, most : 0..LengthMax]
    \cup {[type |-> "object"]}

(* assert_flat: a mode that registers anything else fails the boot.         *)
IsFlat(schema) ==
    /\ schema.props # [n \in {} |-> {}]
    /\ \A n \in DOMAIN schema.props : schema.props[n].type # "object"

(* Defect: only the first constant of a `oneOf` is kept.                    *)
SanitizePropFirst(p) ==
    CASE p.type = "enum" ->
            [p EXCEPT !.oneOf = FALSE,
                      !.values = IF p.oneOf /\ @ # {} THEN {CHOOSE v \in @ : TRUE} ELSE @]
      [] p.type = "number" -> [p EXCEPT !.bounds = Scalars]
      [] p.type = "array" -> [p EXCEPT !.least = IF @ > 1 THEN 0 ELSE @, !.most = LengthMax]
      [] OTHER -> p

(* sanitize_node on a property: the bounds no grammar can express are       *)
(* dropped, and a `oneOf` of constants becomes an `enum`.                   *)
SanitizeProp(p) ==
    CASE p.type = "enum" -> [p EXCEPT !.oneOf = FALSE]
      [] p.type = "number" -> [p EXCEPT !.bounds = Scalars]
      [] p.type = "array" -> [p EXCEPT !.least = IF @ > 1 THEN 0 ELSE @, !.most = LengthMax]
      [] OTHER -> p

(* sanitize: objects are closed and every property is required.             *)
Sanitize(schema) ==
    [props |-> [n \in DOMAIN schema.props |-> SanitizeProp(schema.props[n])],
     required |-> DOMAIN schema.props,
     closed |-> TRUE]

(* What a property's schema admits.                                         *)
Admits(p) ==
    CASE p.type = "enum" -> p.values
      [] p.type = "number" -> p.bounds
      [] p.type = "array" -> {<<"length", k>> : k \in p.least..p.most}
      [] OTHER -> {}

(* validate: an answer maps the names it gives to values.                   *)
Validates(schema, answer) ==
    /\ schema.required \subseteq DOMAIN answer
    /\ schema.closed => DOMAIN answer \subseteq DOMAIN schema.props
    /\ \A n \in DOMAIN answer \cap DOMAIN schema.props : answer[n] \in Admits(schema.props[n])
=============================================================================
