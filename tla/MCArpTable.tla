----------------------------- MODULE MCArpTable -----------------------------
(***************************************************************************)
(* Instances of ArpTable for TLC.  The first address of Mixed reads the    *)
(* same in both byte orders, the others are each the reverse of the other. *)
(***************************************************************************)
EXTENDS ArpTable, TLC

Mixed == {<<1, 1>>, <<1, 2>>, <<2, 1>>}

=============================================================================
