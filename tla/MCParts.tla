------------------------------ MODULE MCParts ------------------------------
(***************************************************************************)
(* The constants of Parts that a configuration cannot write as they are.   *)
(***************************************************************************)
EXTENDS Parts

AccountKinds == <<"funding", "fills">>
AccountEvents == [funding |-> 1, fills |-> 5]
TwoDirs == <<"root", "day">>
FourPayloads == {[recv |-> 0, seq |-> 0], [recv |-> 1, seq |-> 1],
                 [recv |-> 1, seq |-> 2], [recv |-> 2, seq |-> 3]}
ListedAt == [old |-> -5, new |-> 2]
=============================================================================
