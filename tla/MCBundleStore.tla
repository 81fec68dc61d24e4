---------------------------- MODULE MCBundleStore ----------------------------
(***************************************************************************)
(* The runs of BundleStore check the whole state space of one bundle       *)
(* directory under any sequence of commands.                               *)
(***************************************************************************)
EXTENDS BundleStore
=============================================================================
