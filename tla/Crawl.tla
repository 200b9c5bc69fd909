------------------------------- MODULE Crawl -------------------------------
(***************************************************************************)
(* What the crawlers of Labs 4 and 5 promise, however many transfers run   *)
(* at once: each known URL is visited at most once; a visit that succeeds  *)
(* makes all the page's links known, or collects its PNG, before it is     *)
(* finished; no more than target PNGs are collected; and the crawl is over *)
(* only when the target is reached or every known URL is finished.         *)
(***************************************************************************)
EXTENDS Integers, Sequences

CONSTANTS URL, Seed,
          Links,          (* the URLs each HTML page links to, in order     *)
          IsPng,          (* the URLs that answer with a PNG                *)
          EffectiveURL    (* where the redirects of a URL end               *)

VARIABLES target,         (* the number of PNGs wanted                      *)
          known,          (* the URLs found so far                          *)
          visited,        (* those whose visit has begun                    *)
          finished,       (* those whose visit is over                      *)
          failed,         (* those whose transfer failed                    *)
          pngs,           (* the PNG URLs collected, latest first           *)
          over

vars == <<target, known, visited, finished, failed, pngs, over>>

LinksOf(u) == {Links[u][n] : n \in DOMAIN Links[u]}

Init ==
  /\ target \in Nat
  /\ known = {Seed}
  /\ visited = {} /\ finished = {} /\ failed = {}
  /\ pngs = <<>>
  /\ over = FALSE

Visit(u) ==
  /\ u \in known \ visited
  /\ visited' = visited \cup {u}
  /\ UNCHANGED <<target, known, finished, failed, pngs, over>>

Discover(u) ==
  /\ u \in visited \ finished
  /\ \E v \in LinksOf(u) : known' = known \cup {v}
  /\ UNCHANGED <<target, visited, finished, failed, pngs, over>>

Finish(u) ==
  /\ u \in visited \ finished
  /\ finished' = finished \cup {u}
  /\ UNCHANGED <<target, visited, over>>

(* What was not discovered before is discovered now. *)
FinishPage(u) ==
  /\ Finish(u)
  /\ u \notin IsPng
  /\ known' = known \cup LinksOf(u)
  /\ UNCHANGED <<failed, pngs>>

FinishPng(u) ==
  /\ Finish(u)
  /\ u \in IsPng
  /\ pngs' = IF Len(pngs) < target THEN <<EffectiveURL[u]>> \o pngs ELSE pngs
  /\ UNCHANGED <<known, failed>>

Fail(u) ==
  /\ Finish(u)
  /\ failed' = failed \cup {u}
  /\ UNCHANGED <<known, pngs>>

End ==
  /\ Len(pngs) >= target \/ known = finished
  /\ over' = TRUE
  /\ UNCHANGED <<target, known, visited, finished, failed, pngs>>

Next ==
  \/ \E u \in URL : \/ Visit(u) \/ Discover(u)
                    \/ FinishPage(u) \/ FinishPng(u) \/ Fail(u)
  \/ End

Spec == Init /\ [][Next]_vars
=============================================================================
