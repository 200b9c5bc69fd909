---------------------------- MODULE MCFindpng2 ----------------------------
(***************************************************************************)
(* TLC's instances of Findpng2: a small web with a cycle, a page that      *)
(* links to the same URL twice, a dead end, two PNGs, and a redirect that  *)
(* makes two URLs answer with the same PNG.                                *)
(***************************************************************************)
EXTENDS Findpng2, TLC

MCURL == {"seed", "page", "dead", "png", "moved"}

MCLinks ==
  [u \in MCURL |-> CASE u = "seed" -> <<"page", "png">>
                     [] u = "page" -> <<"seed", "dead", "moved", "png">>
                     [] OTHER      -> <<>>]

MCIsPng == {"png", "moved"}

MCEffectiveURL == [u \in MCURL |-> IF u = "moved" THEN "png" ELSE u]
=============================================================================
