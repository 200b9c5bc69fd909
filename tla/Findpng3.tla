------------------------------ MODULE Findpng3 ------------------------------
(***************************************************************************)
(* Lab 5, findpng3.c and curl_xml.c: one thread loads up to                *)
(* max_connections unvisited URLs of the frontier into a curl multi        *)
(* handle, lets libcurl transfer them all, and only then reads and         *)
(* processes the results, in the order in which the transfers ended.       *)
(*                                                                         *)
(* The multi handle (connections) is external: transfers that run, and a   *)
(* queue of messages, one for each that ended.                             *)
(***************************************************************************)
EXTENDS Integers, Sequences, FiniteSets

CONSTANTS Targets,        (* the values of -m considered                    *)
          ConnectionLimits, (* the values of -t considered                  *)
          URL, Seed,
          Links,          (* the http links of each page, in page order;    *)
                          (* none where the answer is no page               *)
          IsPng,          (* the URLs that answer with a valid PNG          *)
          EffectiveURL,   (* where the redirects of a URL end               *)
          TableSize,      (* the capacity hcreate_r gives to visited        *)
          MaxFaults       (* bound on what fails in libcurl                 *)

ASSUME WebAssumption ==
  /\ Targets \subseteq Nat /\ ConnectionLimits \subseteq Nat
  /\ Seed \in URL
  /\ Links \in [URL -> Seq(URL)]
  /\ IsPng \subseteq URL /\ \A u \in IsPng : Links[u] = <<>>
  /\ EffectiveURL \in [URL -> URL]

ASSUME BoundAssumption == TableSize \in Nat /\ MaxFaults \in Nat

VARIABLES
  target, max_connections,
  program,                (* running, exited, crashed, aborted, failed      *)
  pc,                     (* where work() is: head, load, init, ...         *)
  key,                    (* the URL entered last                           *)
  frontier,               (* the list from fhead to ftail                   *)
  loaded_connections,
  running,                (* the transfers still running                    *)
  messages,               (* [url, ok] of those that ended, in that order   *)
  visited,                (* the keys of the hash table                     *)
  phead,                  (* the list of PNG URLs                           *)
  pngs_collected,
  failed,                 (* history: the URLs whose transfer failed        *)
  faults

options     == <<target, max_connections>>
connections == <<running, messages>>
found       == <<phead, pngs_collected>>
batch       == <<key, frontier, loaded_connections>>
vars == <<options, program, pc, batch, connections, visited, found, failed,
          faults>>

Init ==
  /\ target \in Targets /\ max_connections \in ConnectionLimits
  /\ program = "running"
  /\ pc = "head"
  /\ key = Seed
  /\ frontier = <<Seed>>
  /\ loaded_connections = 0
  /\ running = {} /\ messages = <<>>
  /\ visited = {}
  /\ phead = <<>> /\ pngs_collected = 0
  /\ failed = {} /\ faults = 0

Goto(from, to) == pc = from /\ pc' = to

(* The program ends while work() is at pc. *)
Ends(how) == program' = how /\ UNCHANGED pc

Fault == faults < MaxFaults /\ faults' = faults + 1

-----------------------------------------------------------------------------
(* work()                                                                   *)

TargetReached == pngs_collected >= target

(* The target is reached or the frontier is empty: png_urls.txt is written. *)
Exit ==
  /\ pc = "head"
  /\ TargetReached \/ frontier = <<>>
  /\ Ends("exited")
  /\ UNCHANGED <<options, batch, connections, visited, found, failed,
                 faults>>

BeginBatch ==
  /\ ~TargetReached /\ frontier # <<>>
  /\ Goto("head", "load")
  /\ loaded_connections' = 0
  /\ UNCHANGED <<options, key, program, frontier, connections, visited,
                 found, failed, faults>>

Loading ==
  pc = "load" /\ frontier # <<>> /\ loaded_connections < max_connections

(* The URL at fhead was visited before. *)
SkipVisited ==
  /\ Loading
  /\ Head(frontier) \in visited
  /\ frontier' = Tail(frontier)
  /\ UNCHANGED <<options, key, program, pc, loaded_connections, connections,
                 visited, found, failed, faults>>

(* Faulty: the URL is loaded whether it was visited or not. *)
EnterUrl_Again ==
  /\ Loading
  /\ key' = Head(frontier)
  /\ frontier' = Tail(frontier)
  /\ visited' = visited \cup {key'}
  /\ Goto("load", "init")
  /\ UNCHANGED <<options, program, loaded_connections, connections, found,
                 failed, faults>>

(* Enter the URL in the table. *)
EnterUrl ==
  /\ Loading
  /\ Head(frontier) \notin visited
  /\ Cardinality(visited) < TableSize
  /\ key' = Head(frontier)
  /\ frontier' = Tail(frontier)
  /\ visited' = visited \cup {key'}
  /\ Goto("load", "init")
  /\ UNCHANGED <<options, program, loaded_connections, connections, found,
                 failed, faults>>

(* The table is full: ENTER leaves ep NULL, and ep->key crashes.            *)
TableFull ==
  /\ Loading
  /\ Head(frontier) \notin visited
  /\ Cardinality(visited) >= TableSize
  /\ Ends("crashed")
  /\ key' = Head(frontier)
  /\ frontier' = Tail(frontier)
  /\ UNCHANGED <<options, loaded_connections, connections, visited, found,
                 failed, faults>>

(* curlm_init adds a transfer of the URL to the multi handle. *)
LoadTransfer ==
  /\ Goto("init", "load")
  /\ running' = running \cup {key}
  /\ loaded_connections' = loaded_connections + 1
  /\ UNCHANGED <<options, program, key, frontier, messages, visited, found,
                 failed, faults>>

(* curlm_init gets no easy handle: work() returns -2, and main -1 without   *)
(* writing png_urls.txt.                                                    *)
NoHandle ==
  /\ pc = "init"
  /\ Fault
  /\ Ends("failed")
  /\ UNCHANGED <<options, batch, connections, visited, found, failed>>

(* With -v the URL is logged first; when the log file cannot be opened,     *)
(* fclose is called with NULL and crashes.                                  *)
LogFails ==
  /\ pc = "init"
  /\ Fault
  /\ Ends("crashed")
  /\ UNCHANGED <<options, batch, connections, visited, found, failed>>

Dispatch ==
  /\ frontier = <<>> \/ loaded_connections >= max_connections
  /\ Goto("load", "transfer")
  /\ UNCHANGED <<options, batch, program, connections, visited, found,
                 failed, faults>>

(* curl_multi_perform brings one transfer to its end. *)
TransferEnds(u, ok) ==
  /\ pc = "transfer"
  /\ u \in running
  /\ running' = running \ {u}
  /\ messages' = Append(messages, [url |-> u, ok |-> ok])
  /\ UNCHANGED <<options, batch, program, pc, visited, found, failed>>

Transfer(u) == TransferEnds(u, TRUE) /\ UNCHANGED faults

TransferFails(u) == TransferEnds(u, FALSE) /\ Fault

(* curl_multi_wait reports an error. *)
WaitFails ==
  /\ pc = "transfer"
  /\ Fault
  /\ Ends("aborted")
  /\ UNCHANGED <<options, batch, connections, visited, found, failed>>

(* Faulty: the results are read as soon as one transfer has ended, and the  *)
(* next batch is begun over those still running.                            *)
AllEnded_OneEnded ==
  /\ Goto("transfer", "read")
  /\ running = {} \/ messages # <<>>
  /\ UNCHANGED <<options, batch, program, connections, visited, found,
                 failed, faults>>

(* still_running is 0. *)
AllEnded ==
  /\ Goto("transfer", "read")
  /\ running = {}
  /\ UNCHANGED <<options, batch, program, connections, visited, found,
                 failed, faults>>

(* process_png: add the effective URL unless the target is reached. *)
AddPng(u) ==
  IF pngs_collected < target
  THEN /\ phead' = <<EffectiveURL[u]>> \o phead
       /\ pngs_collected' = pngs_collected + 1
  ELSE UNCHANGED found

(* find_http: the links of the page go to the end of the frontier, in the   *)
(* order of the page; a link may be there twice.                            *)
FindHttp(u) == frontier' = frontier \o Links[u]

(* process_data: a PNG is collected and a page's links are followed; an     *)
(* error or another content is a page without links.                        *)
ProcessData(u) ==
  \/ u \in IsPng    /\ AddPng(u)   /\ UNCHANGED frontier
  \/ u \notin IsPng /\ FindHttp(u) /\ UNCHANGED found

(* curl_multi_info_read, process_data for a transfer that succeeded, and    *)
(* the removal of the easy handle.                                          *)
ReadMessage ==
  /\ pc = "read"
  /\ messages # <<>>
  /\ messages' = Tail(messages)
  /\ LET m == Head(messages)
     IN  \/ m.ok /\ ProcessData(m.url) /\ UNCHANGED failed
         \/ /\ ~m.ok
            /\ failed' = failed \cup {m.url}
            /\ UNCHANGED <<frontier, found>>
  /\ UNCHANGED <<options, key, program, pc, loaded_connections, running,
                 visited, faults>>

EndBatch ==
  /\ messages = <<>>
  /\ Goto("read", "head")
  /\ UNCHANGED <<options, batch, program, connections, visited, found,
                 failed, faults>>

WorkStep ==
  \/ Exit \/ BeginBatch
  \/ SkipVisited \/ EnterUrl \/ TableFull \/ LoadTransfer \/ Dispatch
  \/ \E u \in URL : Transfer(u)
  \/ AllEnded
  \/ ReadMessage \/ EndBatch

WorkFault == LogFails \/ NoHandle \/ WaitFails \/ \E u \in URL : TransferFails(u)

Next == program = "running" /\ (WorkStep \/ WorkFault)

Spec == Init /\ [][Next]_vars

(* The thread runs and every transfer ends. *)
FairSpec == Spec /\ WF_vars(program = "running" /\ WorkStep)

-----------------------------------------------------------------------------
TypeOK ==
  /\ target \in Targets /\ max_connections \in ConnectionLimits
  /\ program \in {"running", "exited", "crashed", "aborted", "failed"}
  /\ pc \in {"head", "load", "init", "transfer", "read"}
  /\ key \in URL
  /\ frontier \in Seq(URL)
  /\ loaded_connections \in 0 .. max_connections
  /\ running \subseteq URL
  /\ messages \in Seq([url : URL, ok : BOOLEAN])
  /\ visited \subseteq URL /\ failed \subseteq URL
  /\ phead \in Seq(URL) /\ pngs_collected \in 0 .. target
  /\ faults \in 0 .. MaxFaults

(* -t is respected from batch to batch: the transfers of the multi handle   *)
(* and the results not yet read are never more than max_connections.        *)
ConnectionsBounded == Cardinality(running) + Len(messages) <= max_connections

(* The crawl ends whatever transfers fail: no batch waits for a transfer    *)
(* that was not loaded, and no URL is loaded for ever.  Only with -t 0 is   *)
(* no URL ever loaded at all, and the loop of work() goes on without end.   *)
CrawlEnds == <>(program # "running" \/ max_connections = 0)

-----------------------------------------------------------------------------
(* Lab 5 implements the abstract crawl.                                     *)

Elements(s) == {s[n] : n \in DOMAIN s}

Pending ==
  running \cup {m.url : m \in Elements(messages)}
          \cup (IF pc = "init" THEN {key} ELSE {})

Crawling == INSTANCE Crawl WITH
              known <- visited \cup Elements(frontier) \cup {key},
              finished <- visited \ Pending,
              pngs <- phead,
              over <- program = "exited"

(* Every URL is visited at most once, every link of a page that was fetched *)
(* is followed, the target is never exceeded though the PNGs of one batch   *)
(* arrive together, and the program exits only with the target reached or   *)
(* nothing left to visit.                                                   *)
ImplementsCrawl == Crawling!Spec
=============================================================================
