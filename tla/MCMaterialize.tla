--------------------------- MODULE MCMaterialize ---------------------------
(* Every engine with every materialisation, under every contract that makes *)
(* a difference.                                                             *)
EXTENDS Materialize

SomeConfigs ==
  {c \in [engine : Engines, kind : Kinds, mode : {"off", "verify", "cast"},
          expected : BOOLEAN, extraOk : BOOLEAN, alias : BOOLEAN, limit : BOOLEAN] :
     /\ c.mode = "off" => ~c.expected /\ c.extraOk /\ ~c.alias
     /\ ~c.expected => ~c.alias /\ c.extraOk
     /\ c.kind \in {"view", "ephemeral", "snapshot", "seed"} => c.mode = "off"
     /\ c.limit => c.kind = "table" /\ c.mode # "verify" /\ ~c.alias}
SomeOuts == {[col |-> c, extra |-> x] : c \in {"declared", "castable"}, x \in BOOLEAN}
              \union {[col |-> c, extra |-> FALSE] : c \in {"uncastable", "missing"}}
=============================================================================
