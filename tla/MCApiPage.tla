----------------------------- MODULE MCApiPage -----------------------------
(* Instances of ApiPage for TLC. *)
EXTENDS ApiPage, TLC

Entity(name, members) == [name |-> name, members |-> members]

MCPackages == <<
  <<Entity("Node", <<"send", "stop">>), Entity("Net", <<>>)>>,
  <<Entity("Send", <<"node">>)>> >>

MCMatches == [q \in {"node", "send"} |-> IF q = "node" THEN {"Node", "node"} ELSE {"Send", "send"}]
             @@ ("{2}" :> {})
MCOwner == ("own" :> "Self") @@ ("old" :> "Base") @@ ("any" :> "Any")
MCMemberMatches == "o" :> {"own", "old"}
=============================================================================
