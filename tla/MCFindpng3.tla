---------------------------- MODULE MCFindpng3 ----------------------------
(***************************************************************************)
(* TLC's instances of Findpng3: a web like MCFindpng2's, in which two PNGs  *)
(* come in one batch, two URLs answer with the same PNG, and a page is     *)
(* linked from two others.                                                 *)
(***************************************************************************)
EXTENDS Findpng3, TLC

MCURL == {"seed", "page", "other", "dead", "png", "moved", "late"}

MCLinks ==
  [u \in MCURL |-> CASE u = "seed"  -> <<"page", "png", "moved">>
                     [] u = "page"  -> <<"seed", "dead", "other", "png">>
                     [] u = "other" -> <<"late", "page", "moved">>
                     [] OTHER       -> <<>>]

MCIsPng == {"png", "moved", "late"}

MCEffectiveURL == [u \in MCURL |-> IF u = "moved" THEN "png" ELSE u]
=============================================================================
