---------------------------- MODULE MCAudioSweep ----------------------------
EXTENDS AudioSweep, TLC

(* Three files for two workers, and a chunk after them.                    *)
TwoSizes == <<3, 1>>

(* Every mix of three kinds in the first two, and one with the others.     *)
Mix(a, b, c, d) == <<1, 1>> :> a @@ <<1, 2>> :> b @@ <<1, 3>> :> c @@ <<2, 1>> :> d

MixedTruths ==
  {Mix(a, b, "sound", "sound") : a, b \in {"sound", "damaged", "gone"}}
  \cup {Mix("damaged", "locked", "unread", "gone")}

TwoLockable == {<<1, 2>>, <<2, 1>>}
=============================================================================
