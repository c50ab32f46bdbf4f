--------------------------- MODULE MCNodeDirectory ---------------------------
(***************************************************************************)
(* Three agents at three addresses. A static source announces addresses; a *)
(* dynamic one announces identities, which may move and need not be those  *)
(* the agents choose.                                                      *)
(***************************************************************************)
EXTENDS NodeDirectory

CONSTANTS a1, a2, a3, i1, i2, i3

At(id, addr) == [id |-> id, addr |-> addr]

MCIdent == [a \in Addresses |-> IF a = a1 THEN i1 ELSE IF a = a2 THEN i2 ELSE i3]

StaticSnapshots == {<<At(a1, a1)>>, <<At(a1, a1), At(a2, a2)>>,
                    <<At(a1, a1), At(a2, a2), At(a3, a3)>>, <<At(a2, a2)>>}

MovingSnapshots == {<<At(i1, a1)>>, <<At(i1, a2)>>, <<At(i2, a2), At(i1, a1)>>,
                    <<At(i1, a2), At(i3, a1)>>, <<At(i1, a2), At(i3, a3)>>,
                    <<At(a3, a3), At(i2, a3)>>}

AllSnapshots == StaticSnapshots \cup MovingSnapshots
=============================================================================
