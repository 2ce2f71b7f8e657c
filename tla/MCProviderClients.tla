------------------------- MODULE MCProviderClients -------------------------
(* ProviderClients for TLC: what the forms send and what is published at the start. *)
EXTENDS ProviderClients, TLC

Good == [ACCOUNT |-> "a", KEY |-> "k"]

Bad == [ACCOUNT |-> Broken]

MCTyped ==
  [g \in Groups |->
     CASE g = "alipay"    -> {[KEY |-> Null], [MODE |-> "CERT", CERT |-> Broken]}
       [] g = "wechatpay" -> {Bad, [ACCOUNT |-> "b"]}
       [] g = "stripe"    -> {[ACCOUNT |-> "b"], [KEY |-> "b"]}
       [] OTHER           -> {[ACCOUNT |-> "a"], [ACCOUNT |-> "b"]}]

MCSetups ==
  [g \in Groups |->
     CASE g = "alipay"    -> {[MODE |-> "CERT", ACCOUNT |-> "a", CERT |-> Broken]}
       [] g = "wechatpay" -> {[ACCOUNT |-> "b", KEY |-> "k"]}
       [] g = "stripe"    -> {[ACCOUNT |-> "b", KEY |-> "k"]}
       [] OTHER           -> {[ACCOUNT |-> "a"], [ACCOUNT |-> Null]}]

Only(s, v) == [t \in Scopes |-> IF t = s THEN v ELSE NoValue]

MCPublished ==
  [g \in Groups |->
     IF g \in {"alipay", "wechatpay", "stripe"}
     THEN {Only(Global, Good), Only("app", Good)}
     ELSE {Only(Global, NoValue)}]

\* Which handler serves a request makes no difference.
Symmetry == Permutations(Calls) \cup Permutations(Uses)

============================================================================
