---------------------------- MODULE MCCNIInstall ----------------------------
(* The lists of add-ons CNIInstall is checked with: all of them in an      *)
(* order that must change, and Multus alone.                               *)
EXTENDS CNIInstall

MCAddonLists == {<<"multus", "cert-manager", "whereabouts">>, <<"multus">>}
=============================================================================
