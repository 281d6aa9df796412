------------------------------- MODULE MCSdk --------------------------------
(***************************************************************************)
(* A register and a transaction builder: the two parts of the SDK that     *)
(* keep something, side by side.  They share no state.                     *)
(***************************************************************************)
EXTENDS Interop, TxBuilder

SdkInit == RegisterInit /\ BuilderInit

SdkNext == \/ RegisterNext /\ UNCHANGED builder
           \/ Call /\ UNCHANGED registerVars

SdkSpec == SdkInit /\ [][SdkNext]_<<registerVars, builder>>

Repeat(n) == [i \in 1..n |-> i % 256]

Limits(half) == {-half - 1, -half, -65, -64, -1, 0, 63, 64, 300, 8191, 8192, half - 1, half}

Leaves == {Int_(384), Long(-1), Coll(<<>>), Coll(<<1>>), Coll(<<1, 2>>), SigmaProp(<<2, 3>>), Boolean(TRUE), Nothing}

MCValues ==
    {Int_(n) : n \in Limits(IntHalf)} \cup {Long(n) : n \in Limits(LongHalf)}
    \cup {Coll(Repeat(n)) : n \in {0, 1, 2, 8, 127, 128, 129, 130}} \cup {Coll(<<0>>)}
    \cup {SigmaProp(<<2, 3>>), SigmaProp(<<2>>)}
    \cup Leaves \cup {Some(v) : v \in Leaves} \cup {Boolean(FALSE)}
    \cup {Pair(l, r) : l \in Leaves, r \in Leaves}
    \cup {Pair(Some(Int_(384)), Boolean(TRUE)), Pair(Pair(Nothing, Nothing), Nothing), Pair(Nothing, Pair(Boolean(TRUE), Int_(384)))}
=============================================================================
