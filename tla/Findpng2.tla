------------------------------ MODULE Findpng2 ------------------------------
(***************************************************************************)
(* Lab 4, findpng2.c and curl_xml.c: threads take URLs from a shared       *)
(* frontier, visit each URL once, append the links of HTML pages to the    *)
(* frontier and collect PNG URLs until target of them are found or the     *)
(* frontier is empty and every thread is blocked on it.                    *)
(*                                                                         *)
(* Each section under a lock is one action: mut_frontier, mut_pngs and     *)
(* rw_hash each protect their own variables and are never held together.   *)
(***************************************************************************)
EXTENDS Integers, Sequences, FiniteSets

CONSTANTS Threads,        (* the -t threads                                 *)
          Targets,        (* the values of -m considered                    *)
          URL, Seed,
          NoUrl,          (* no URL in hand                                 *)
          Links,          (* the http links of each page, in page order     *)
          IsPng,          (* the URLs that answer with a valid PNG          *)
          EffectiveURL,   (* where the redirects of a URL end               *)
          TableSize,      (* the capacity hcreate_r gives to visited        *)
          MaxFaults       (* bound on failed transfers, spurious wake-ups   *)

ASSUME ThreadAssumption == IsFiniteSet(Threads) /\ Threads # {}

ASSUME WebAssumption ==
  /\ Targets \subseteq Nat
  /\ Seed \in URL /\ NoUrl \notin URL
  /\ Links \in [URL -> Seq(URL)]
  /\ IsPng \subseteq URL /\ \A u \in IsPng : Links[u] = <<>>
  /\ EffectiveURL \in [URL -> URL]

ASSUME BoundAssumption == TableSize \in Nat /\ MaxFaults \in Nat

num_threads == Cardinality(Threads)

VARIABLES
  target,                 (* -m                                             *)
  program,                (* running, exited, or how it crashed or aborted  *)
  pc,                     (* where each thread is                           *)
  url,                    (* the URL each thread took from the frontier     *)
  pushed,                 (* how many links of its page it has pushed       *)
  frontier,               (* the list from fhead to ftail                   *)
  blocked_threads,
  waiters,                (* the threads no signal has woken yet            *)
  visited,                (* the keys of the hash table                     *)
  phead,                  (* the list of PNG URLs                           *)
  pngs_collected,
  failed,                 (* history: the URLs whose transfer failed        *)
  faults

mine  == <<url, pushed>>
queue == <<frontier, blocked_threads, waiters>>
found == <<phead, pngs_collected>>
world == <<target, program, failed, faults>>
vars  == <<pc, mine, queue, visited, found, world>>

Init ==
  /\ target \in Targets
  /\ program = "running"
  /\ pc = [t \in Threads |-> "check"]
  /\ url = [t \in Threads |-> NoUrl]
  /\ pushed = [t \in Threads |-> 0]
  /\ frontier = <<Seed>>
  /\ blocked_threads = 0
  /\ waiters = {}
  /\ visited = {}
  /\ phead = <<>> /\ pngs_collected = 0
  /\ failed = {} /\ faults = 0

At(S) == {t \in Threads : pc[t] \in S}

Goto(t, from, to) == pc[t] = from /\ pc' = [pc EXCEPT ![t] = to]

(* An action that keeps url drops it when its thread ends the visit. *)
Drop(t) == url' = [url EXCEPT ![t] = NoUrl] /\ pushed' = [pushed EXCEPT ![t] = 0]

Fault == faults < MaxFaults /\ faults' = faults + 1

-----------------------------------------------------------------------------
(* work(), one section at a time                                            *)

TargetReached == pngs_collected >= target

CheckTarget(t) ==
  /\ Goto(t, "check", IF TargetReached THEN "leave" ELSE "frontier")
  /\ UNCHANGED <<mine, queue, visited, found, world>>

(* Take the URL at fhead and unlock mut_frontier. *)
PopFrontier(t, from) ==
  /\ frontier # <<>>
  /\ Goto(t, from, "visit")
  /\ url' = [url EXCEPT ![t] = Head(frontier)]
  /\ frontier' = Tail(frontier)
  /\ UNCHANGED pushed

Pop(t) ==
  /\ PopFrontier(t, "frontier")
  /\ UNCHANGED <<blocked_threads, waiters, visited, found, world>>

(* Faulty: every thread that finds the frontier empty waits. *)
Block_LastToo(t) ==
  /\ frontier = <<>>
  /\ blocked_threads' = blocked_threads + 1
  /\ Goto(t, "frontier", "waiting")
  /\ waiters' = waiters \cup {t}
  /\ UNCHANGED <<mine, frontier, visited, found, world>>

(* The frontier is empty: wait, unless every other thread is blocked too;   *)
(* the last one wakes them all and leaves the loop.                         *)
Block(t) ==
  /\ frontier = <<>>
  /\ blocked_threads' = blocked_threads + 1
  /\ IF blocked_threads' < num_threads
     THEN Goto(t, "frontier", "waiting") /\ waiters' = waiters \cup {t}
     ELSE Goto(t, "frontier", "leave") /\ waiters' = {}
  /\ UNCHANGED <<mine, frontier, visited, found, world>>

(* Faulty: a thread that finds no URL when it wakes up stays counted. *)
Resume_StaysCounted(t) ==
  IF blocked_threads >= num_threads /\ frontier = <<>>
  THEN /\ Goto(t, "waiting", "leave")
       /\ waiters' = {}
       /\ UNCHANGED <<mine, frontier, blocked_threads>>
  ELSE /\ waiters' = waiters \ {t}
       /\ \/ PopFrontier(t, "waiting") /\ blocked_threads' = blocked_threads - 1
          \/ /\ frontier = <<>>
             /\ Goto(t, "waiting", "check")
             /\ UNCHANGED <<mine, frontier, blocked_threads>>

(* Back from pthread_cond_wait: leave when every thread is blocked and the  *)
(* frontier empty, and otherwise go on, with a URL if there is one.         *)
Resume(t) ==
  IF blocked_threads >= num_threads /\ frontier = <<>>
  THEN /\ Goto(t, "waiting", "leave")
       /\ waiters' = {}
       /\ UNCHANGED <<mine, frontier, blocked_threads>>
  ELSE /\ blocked_threads' = blocked_threads - 1
       /\ waiters' = waiters \ {t}
       /\ \/ PopFrontier(t, "waiting")
          \/ /\ frontier = <<>>
             /\ Goto(t, "waiting", "check")
             /\ UNCHANGED <<mine, frontier>>

Wake(t) ==
  /\ t \notin waiters
  /\ Resume(t)
  /\ UNCHANGED <<visited, found, world>>

(* pthread_cond_wait may return without a signal. *)
WakeSpuriously(t) ==
  /\ t \in waiters
  /\ Fault
  /\ Resume(t)
  /\ UNCHANGED <<visited, found, target, program, failed>>

(* Look the URL up and enter it, under one hold of rw_hash.  When the table *)
(* is full the ENTER fails, ep is NULL and its use in line 114 crashes.     *)
Visit(t) ==
  IF url[t] \in visited
  THEN /\ Goto(t, "visit", "check")
       /\ Drop(t)
       /\ UNCHANGED <<queue, visited, found, world>>
  ELSE IF Cardinality(visited) < TableSize
       THEN /\ Goto(t, "visit", "fetch")
            /\ visited' = visited \cup {url[t]}
            /\ UNCHANGED <<mine, queue, found, world>>
       ELSE /\ pc[t] = "visit" /\ program' = "crashed"
            /\ UNCHANGED <<pc, mine, queue, visited, found, target, failed, faults>>

(* curl_easy_perform succeeds.  A response above 400 or of another content  *)
(* type is a page without links here: process_data finds nothing in it.     *)
Fetch(t) ==
  /\ Goto(t, "fetch", IF url[t] \in IsPng THEN "png" ELSE "links")
  /\ UNCHANGED <<mine, queue, visited, found, world>>

(* The transfer fails: on to the next URL; this one is not tried again. *)
FetchFails(t) ==
  /\ Goto(t, "fetch", "check")
  /\ Fault
  /\ failed' = failed \cup {url[t]}
  /\ Drop(t)
  /\ UNCHANGED <<queue, visited, found, target, program>>

(* easy_handle_init returns NULL and the thread aborts the program. *)
NoHandle(t) ==
  /\ pc[t] = "fetch"
  /\ Fault
  /\ program' = "aborted"
  /\ UNCHANGED <<pc, mine, queue, visited, found, target, failed>>

(* With -v the URL is logged first; when the log file cannot be opened,     *)
(* fclose is called with NULL and crashes.                                  *)
LogFails(t) ==
  /\ pc[t] = "fetch"
  /\ Fault
  /\ program' = "log_crashed"
  /\ UNCHANGED <<pc, mine, queue, visited, found, target, failed>>

(* pthread_cond_signal: one of the waiters, if there is any. *)
Signal == \/ waiters = {} /\ UNCHANGED waiters
          \/ \E w \in waiters : waiters' = waiters \ {w}

(* find_http appends the next link and signals. *)
PushLink(t) ==
  /\ Goto(t, "links", "links")
  /\ pushed[t] < Len(Links[url[t]])
  /\ pushed' = [pushed EXCEPT ![t] = @ + 1]
  /\ frontier' = Append(frontier, Links[url[t]][pushed[t] + 1])
  /\ Signal
  /\ UNCHANGED <<url, blocked_threads, visited, found, world>>

LinksDone(t) ==
  /\ Goto(t, "links", "recheck")
  /\ pushed[t] = Len(Links[url[t]])
  /\ Drop(t)
  /\ UNCHANGED <<queue, visited, found, world>>

(* Faulty: the target is not checked again under mut_pngs. *)
AddPng_Unchecked(t) ==
  /\ Goto(t, "png", "recheck")
  /\ phead' = <<EffectiveURL[url[t]]>> \o phead
  /\ pngs_collected' = pngs_collected + 1
  /\ Drop(t)
  /\ UNCHANGED <<queue, visited, world>>

(* process_png: add the effective URL unless the target is reached. *)
AddPng(t) ==
  /\ Goto(t, "png", "recheck")
  /\ IF pngs_collected < target
     THEN /\ phead' = <<EffectiveURL[url[t]]>> \o phead
          /\ pngs_collected' = pngs_collected + 1
     ELSE UNCHANGED found
  /\ Drop(t)
  /\ UNCHANGED <<queue, visited, world>>

Recheck(t) ==
  /\ Goto(t, "recheck", IF TargetReached THEN "leave" ELSE "check")
  /\ UNCHANGED <<mine, queue, visited, found, world>>

(* Faulty: a thread that leaves does not wake the others. *)
Leave_Quietly(t) ==
  /\ Goto(t, "leave", "done")
  /\ blocked_threads' = num_threads
  /\ UNCHANGED <<mine, frontier, waiters, visited, found, world>>

(* Make the other threads leave too: count all as blocked and wake them. *)
Leave(t) ==
  /\ Goto(t, "leave", "done")
  /\ blocked_threads' = num_threads
  /\ waiters' = {}
  /\ UNCHANGED <<mine, frontier, visited, found, world>>

WorkStep(t) ==
  \/ CheckTarget(t)
  \/ Pop(t) \/ Block(t) \/ Wake(t)
  \/ Visit(t) \/ Fetch(t)
  \/ PushLink(t) \/ LinksDone(t) \/ AddPng(t)
  \/ Recheck(t) \/ Leave(t)

WorkFault(t) == WakeSpuriously(t) \/ FetchFails(t) \/ NoHandle(t) \/ LogFails(t)

(* main(): the joins, then png_urls.txt is written from phead. *)
Exit ==
  /\ At({"done"}) = Threads
  /\ program' = "exited"
  /\ UNCHANGED <<pc, mine, queue, visited, found, target, failed, faults>>

Next ==
  /\ program = "running"
  /\ \/ \E t \in Threads : WorkStep(t) \/ WorkFault(t)
     \/ Exit

Spec == Init /\ [][Next]_vars

(* Every thread is scheduled and every transfer ends. *)
FairSpec ==
  /\ Spec
  /\ \A t \in Threads : WF_vars(program = "running" /\ WorkStep(t))
  /\ WF_vars(program = "running" /\ Exit)

-----------------------------------------------------------------------------
ThreadPC == {"check", "frontier", "waiting", "visit", "fetch", "links", "png",
             "recheck", "leave", "done"}

TypeOK ==
  /\ target \in Targets
  /\ program \in {"running", "exited", "crashed", "aborted", "log_crashed"}
  /\ pc \in [Threads -> ThreadPC]
  /\ url \in [Threads -> URL \cup {NoUrl}]
  /\ pushed \in [Threads -> Nat]
  /\ frontier \in Seq(URL)
  /\ blocked_threads \in Nat
  /\ waiters \subseteq Threads
  /\ visited \subseteq URL /\ failed \subseteq URL
  /\ phead \in Seq(URL) /\ pngs_collected \in Nat
  /\ faults \in 0 .. MaxFaults

(* blocked_threads counts the threads inside cond_wait's region as long as  *)
(* no thread is leaving; the code has no other way to tell that nobody can  *)
(* push to the frontier any more.                                           *)
BlockedCount ==
  At({"leave", "done"}) = {} => blocked_threads = Cardinality(At({"waiting"}))

(* A thread that no signal has woken is never alone: some other thread has  *)
(* yet to push to the frontier, to block, or to wake it when leaving.       *)
NoneLeftWaiting == waiters # {} => At({"waiting", "done"}) # Threads \/ waiters # At({"waiting"})

(* The crawl ends (or the program crashes) whatever transfers fail.         *)
CrawlEnds == <>(program # "running")

(* The program never uses the NULL that a failed ENTER leaves: what the     *)
(* comment at findpng2.c:95 relies on, "hsearch with ENTER flag enters the  *)
(* element since its not already there".                                    *)
EnterSucceeds == program # "crashed"

-----------------------------------------------------------------------------
(* Lab 4 implements the abstract crawl.                                     *)

Elements(s) == {s[n] : n \in DOMAIN s}

Known == visited \cup Elements(frontier) \cup {url[t] : t \in At({"visit"})}

Finished == visited \ {url[t] : t \in At({"fetch", "links", "png"})}

Crawling == INSTANCE Crawl WITH
              known <- Known, finished <- Finished, pngs <- phead,
              over <- program = "exited"

(* Every URL is visited at most once, every link of a page that was fetched *)
(* is followed, the target is never exceeded, and the program exits only    *)
(* with the target reached or nothing left to visit.                        *)
ImplementsCrawl == Crawling!Spec
=============================================================================
