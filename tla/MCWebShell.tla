----------------------------- MODULE MCWebShell -----------------------------
(***************************************************************************)
(* One tab with three history entries; a typed path may be a page, a page  *)
(* nobody links, no page inside a layout and below an item, and no page.   *)
(***************************************************************************)
EXTENDS WebShell

MCSegments == {"admin", "console", "keys", "usage", "wallet", "today", "orders", "pricing"}

MCTypedPaths == {<<>>, <<"admin">>, <<"console", "usage">>,
                 <<"console", "usage", "today">>, <<"console", "orders">>, <<"pricing">>}
=============================================================================
