----------------------------- MODULE LabsProofs -----------------------------
(***************************************************************************)
(* What runs in a single thread in the labs, for every value of the        *)
(* constants: Lab 5's crawler (Findpng3), the receive buffer of paster     *)
(* (RecvBuf) and the bytes under Lab 3's queue (RingLayout).  They share   *)
(* no state; each has its own specification and its own invariant.         *)
(*                                                                         *)
(* Findpng3: ConnInv says what the multi handle holds at each place of     *)
(* work(), OnceInv that a URL is in one place only.  Together they make    *)
(* every step one of the abstract crawl or a stutter.                      *)
(*                                                                         *)
(* RecvBuf, for every size of the buffer and of the calls, any number of    *)
(* answers and of strips: the terminator has its place, the slice that is  *)
(* written is the answer, and an answer that names no strip is never       *)
(* written.                                                                *)
(*                                                                         *)
(* The bytes of the segment implement the slots of Buffer, for every       *)
(* number of slots, size of the data and size of a page: whatever          *)
(* Buffer_init writes beside the slots is gone when a slot is read.        *)
(***************************************************************************)
EXTENDS Findpng3, RecvBuf, RingLayout, BufferProofs, FiniteSetTheorems

-----------------------------------------------------------------------------
(* Lab 5: the types.                                                        *)

Message == [url : URL, ok : BOOLEAN]

LEMMA CrawlInit == Init => TypeOK
<1> SUFFICES ASSUME Init PROVE TypeOK
  OBVIOUS
<1>1. <<Seed>> \in Seq(URL) /\ Seed \in URL
  BY WebAssumption
<1>2. target \in Nat /\ max_connections \in Nat
  BY WebAssumption DEF Init
<1> QED
  BY <1>1, <1>2, BoundAssumption DEF Init, TypeOK

(* What the multi handle holds: nothing outside a batch, no more transfers  *)
(* than were loaded, and when results are read no transfer runs any more.   *)
ConnInv ==
  /\ IsFiniteSet(running)
  /\ Cardinality(running) + Len(messages) <= loaded_connections
  /\ pc = "init" => loaded_connections < max_connections
  /\ pc \in {"head", "load", "init"} => messages = <<>>
  /\ pc \in {"head", "read"} => running = {}

LEMMA CrawlTypes == TypeOK /\ ConnInv /\ [Next]_vars => TypeOK'
<1> SUFFICES ASSUME TypeOK, ConnInv, [Next]_vars PROVE TypeOK'
  OBVIOUS
<1> USE DEF options, connections, found, batch, Goto, Ends
<1>1. /\ target \in Targets /\ max_connections \in ConnectionLimits
      /\ target \in Nat /\ max_connections \in Nat
      /\ program \in {"running", "exited", "crashed", "aborted", "failed"}
      /\ pc \in {"head", "load", "init", "transfer", "read"}
      /\ key \in URL /\ frontier \in Seq(URL)
      /\ loaded_connections \in 0 .. max_connections
      /\ running \subseteq URL /\ messages \in Seq(Message)
      /\ visited \subseteq URL /\ failed \subseteq URL
      /\ phead \in Seq(URL) /\ pngs_collected \in 0 .. target
      /\ faults \in 0 .. MaxFaults /\ MaxFaults \in Nat
  BY WebAssumption, BoundAssumption DEF TypeOK, Message
<1>2. SUFFICES
      /\ target' \in Targets /\ max_connections' \in ConnectionLimits
      /\ program' \in {"running", "exited", "crashed", "aborted", "failed"}
      /\ pc' \in {"head", "load", "init", "transfer", "read"}
      /\ key' \in URL /\ frontier' \in Seq(URL)
      /\ loaded_connections' \in 0 .. max_connections'
      /\ running' \subseteq URL /\ messages' \in Seq(Message)
      /\ visited' \subseteq URL /\ failed' \subseteq URL
      /\ phead' \in Seq(URL) /\ pngs_collected' \in 0 .. target'
      /\ faults' \in 0 .. MaxFaults
  BY DEF TypeOK, Message
<1>3. ASSUME Fault PROVE faults' \in 0 .. MaxFaults
  BY <1>1, <1>3 DEF Fault
<1>4. frontier # <<>> => Head(frontier) \in URL /\ Tail(frontier) \in Seq(URL)
  BY <1>1, HeadTailProperties
<1>5. CASE UNCHANGED vars
  BY <1>1, <1>5 DEF vars
<1>6. CASE Exit \/ BeginBatch \/ Dispatch \/ AllEnded \/ EndBatch
  BY <1>1, <1>6 DEF Exit, BeginBatch, Dispatch, AllEnded, EndBatch
<1>7. CASE SkipVisited \/ TableFull
  BY <1>1, <1>4, <1>7 DEF SkipVisited, TableFull, Loading
<1>8. CASE EnterUrl
  BY <1>1, <1>4, <1>8 DEF EnterUrl, Loading
<1>9. CASE NoHandle \/ LogFails \/ WaitFails
  BY <1>1, <1>3, <1>9 DEF NoHandle, LogFails, WaitFails
<1>10. CASE \E u \in URL : Transfer(u) \/ TransferFails(u)
  <2>1. PICK u \in URL, ok \in BOOLEAN : TransferEnds(u, ok)
    BY <1>10 DEF Transfer, TransferFails
  <2>2. [url |-> u, ok |-> ok] \in Message
    BY DEF Message
  <2>3. messages' \in Seq(Message)
    BY <1>1, <2>1, <2>2, AppendProperties DEF TransferEnds
  <2>4. faults' \in 0 .. MaxFaults
    BY <1>1, <1>3, <1>10 DEF Transfer, TransferFails
  <2> QED
    BY <1>1, <2>1, <2>3, <2>4 DEF TransferEnds
<1>11. CASE ReadMessage
  <2> DEFINE m == Head(messages)
  <2>1. messages # <<>> /\ m \in Message /\ m.url \in URL /\ messages' \in Seq(Message)
    <3>1. messages # <<>> /\ messages' = Tail(messages)
      BY <1>11 DEF ReadMessage
    <3>2. m \in Message /\ Tail(messages) \in Seq(Message)
      BY <1>1, <3>1, HeadTailProperties
    <3> QED
      BY <3>1, <3>2 DEF Message
  <2>2. UNCHANGED <<options, key, program, pc, loaded_connections, running, visited, faults>>
    BY <1>11 DEF ReadMessage
  <2>3. failed' \subseteq URL
    BY <1>1, <1>11, <2>1 DEF ReadMessage
  <2>4. frontier' \in Seq(URL)
    <3>1. frontier' = frontier \/ frontier' = frontier \o Links[m.url]
      BY <1>11 DEF ReadMessage, ProcessData, FindHttp
    <3>2. ASSUME frontier' = frontier \o Links[m.url] PROVE frontier' \in Seq(URL)
      <4>1. Links[m.url] \in Seq(URL)
        BY <2>1, WebAssumption
      <4>2. frontier \o Links[m.url] \in Seq(URL)
        BY <1>1, <4>1, ConcatProperties
      <4> QED
        BY <3>2, <4>2, Zenon
    <3> QED
      BY <1>1, <3>1, <3>2
  <2>5. phead' \in Seq(URL) /\ pngs_collected' \in 0 .. target
    <3>1. \/ UNCHANGED found
          \/ /\ pngs_collected < target
             /\ phead' = <<EffectiveURL[m.url]>> \o phead
             /\ pngs_collected' = pngs_collected + 1
      BY <1>11 DEF ReadMessage, ProcessData, AddPng
    <3>2. ASSUME phead' = <<EffectiveURL[m.url]>> \o phead PROVE phead' \in Seq(URL)
      <4>1. <<EffectiveURL[m.url]>> \in Seq(URL)
        BY <2>1, WebAssumption
      <4>2. <<EffectiveURL[m.url]>> \o phead \in Seq(URL)
        BY <1>1, <4>1, ConcatProperties
      <4> QED
        BY <3>2, <4>2, Zenon
    <3> QED
      BY <1>1, <3>1, <3>2
  <2> QED
    BY <1>1, <2>1, <2>2, <2>3, <2>4, <2>5
<1>12. CASE LoadTransfer
  BY <1>1, <1>12 DEF LoadTransfer, ConnInv
<1> QED
  BY <1>5, <1>6, <1>7, <1>8, <1>9, <1>10, <1>11, <1>12 DEF Next, WorkStep, WorkFault

LEMMA ConnStep == TypeOK /\ ConnInv /\ [Next]_vars => ConnInv'
<1> SUFFICES ASSUME TypeOK, ConnInv, [Next]_vars PROVE ConnInv'
  OBVIOUS
<1> USE DEF options, connections, found, batch
<1>1. /\ pc \in {"head", "load", "init", "transfer", "read"}
      /\ loaded_connections \in Nat /\ max_connections \in Nat
      /\ messages \in Seq(Message) /\ Len(messages) \in Nat
      /\ IsFiniteSet(running) /\ Cardinality(running) \in Nat
      /\ Cardinality(running) + Len(messages) <= loaded_connections
      /\ pc = "init" => loaded_connections < max_connections
      /\ pc \in {"head", "load", "init"} => messages = <<>>
      /\ pc \in {"head", "read"} => running = {}
  <2>1. messages \in Seq(Message) /\ max_connections \in Nat
    BY WebAssumption DEF TypeOK, Message
  <2> QED
    BY <2>1, LenProperties, FS_CardinalityType DEF TypeOK, ConnInv
<1>2. ASSUME UNCHANGED <<loaded_connections, max_connections, connections>>,
             /\ pc' \in {"init", "head", "load"} => messages = <<>>
             /\ pc' \in {"head", "read"} => running = {}
             /\ pc' = "init" => loaded_connections < max_connections
      PROVE  ConnInv'
  BY <1>1, <1>2 DEF ConnInv
<1>3. CASE UNCHANGED vars
  BY <1>1, <1>2, <1>3 DEF vars
<1>4. CASE Exit \/ SkipVisited \/ TableFull \/ NoHandle \/ LogFails \/ WaitFails
  <2>1. UNCHANGED <<loaded_connections, max_connections, connections, pc>>
    BY <1>4 DEF Exit, SkipVisited, TableFull, NoHandle, LogFails, WaitFails, Ends
  <2> QED
    BY <1>1, <1>2, <2>1
<1>5. CASE BeginBatch
  <2>1. /\ pc = "head" /\ pc' = "load" /\ loaded_connections' = 0
        /\ UNCHANGED <<max_connections, connections>>
    BY <1>5 DEF BeginBatch, Goto
  <2>2. running = {} /\ messages = <<>> /\ Cardinality(running) = 0 /\ Len(messages) = 0
    BY <1>1, <2>1, FS_EmptySet, EmptySeq
  <2> QED
    BY <1>1, <2>1, <2>2 DEF ConnInv
<1>6. CASE EnterUrl
  BY <1>1, <1>2, <1>6 DEF EnterUrl, Loading, Goto
<1>7. CASE Dispatch
  BY <1>1, <1>2, <1>7 DEF Dispatch, Goto
<1>8. CASE AllEnded \/ EndBatch
  BY <1>1, <1>2, <1>8 DEF AllEnded, EndBatch, Goto
<1>9. CASE LoadTransfer
  <2>1. /\ pc = "init" /\ pc' = "load" /\ running' = running \cup {key}
        /\ loaded_connections' = loaded_connections + 1
        /\ UNCHANGED <<max_connections, messages>>
    BY <1>9 DEF LoadTransfer, Goto
  <2>2. /\ IsFiniteSet(running')
        /\ \/ Cardinality(running') = Cardinality(running)
           \/ Cardinality(running') = Cardinality(running) + 1
    BY <1>1, <2>1, FS_AddElement
  <2> QED
    BY <1>1, <2>1, <2>2 DEF ConnInv
<1>10. CASE \E u \in URL : Transfer(u) \/ TransferFails(u)
  <2>1. PICK u \in URL, ok \in BOOLEAN : TransferEnds(u, ok)
    BY <1>10 DEF Transfer, TransferFails
  <2>2. /\ pc = "transfer" /\ pc' = pc /\ u \in running /\ running' = running \ {u}
        /\ messages' = Append(messages, [url |-> u, ok |-> ok])
        /\ UNCHANGED <<loaded_connections, max_connections>>
    BY <2>1 DEF TransferEnds
  <2>3. IsFiniteSet(running') /\ Cardinality(running') = Cardinality(running) - 1
    BY <1>1, <2>2, FS_RemoveElement
  <2>4. Len(messages') = Len(messages) + 1
    <3>1. [url |-> u, ok |-> ok] \in Message
      BY DEF Message
    <3> QED
      BY <1>1, <2>2, <3>1, AppendProperties
  <2> QED
    BY <1>1, <2>2, <2>3, <2>4 DEF ConnInv
<1>11. CASE ReadMessage
  <2>1. /\ pc = "read" /\ pc' = pc /\ messages # <<>> /\ messages' = Tail(messages)
        /\ UNCHANGED <<loaded_connections, max_connections, running>>
    BY <1>11 DEF ReadMessage
  <2>2. Len(messages') = Len(messages) - 1
    BY <1>1, <2>1, HeadTailProperties
  <2> QED
    BY <1>1, <2>1, <2>2 DEF ConnInv
<1> QED
  BY <1>3, <1>4, <1>5, <1>6, <1>7, <1>8, <1>9, <1>10, <1>11 DEF Next, WorkStep, WorkFault

LEMMA ConnInvariant == Spec => [](TypeOK /\ ConnInv)
<1>1. Init => ConnInv
  BY FS_EmptySet, EmptySeq DEF Init, ConnInv
<1> QED
  BY <1>1, CrawlInit, CrawlTypes, ConnStep, PTL DEF Spec

(* Every variable of Lab 5 keeps its type. *)
THEOREM Lab5TypeCorrect == Spec => []TypeOK
BY ConnInvariant, PTL

(* Lab 5 never has more than max_connections transfers in the multi handle, *)
(* running or ended but not yet read, for every value of -t.                *)
THEOREM NeverTooManyConnections == Spec => []ConnectionsBounded
<1>1. TypeOK /\ ConnInv => ConnectionsBounded
  <2> SUFFICES ASSUME TypeOK, ConnInv PROVE ConnectionsBounded
    OBVIOUS
  <2>1. /\ Cardinality(running) \in Nat /\ Len(messages) \in Nat
        /\ max_connections \in Nat
    <3>1. messages \in Seq(Message) /\ max_connections \in Nat
      BY WebAssumption DEF TypeOK, Message
    <3> QED
      BY <3>1, LenProperties, FS_CardinalityType DEF ConnInv
  <2> QED
    BY <2>1 DEF TypeOK, ConnInv, ConnectionsBounded
<1> QED
  BY <1>1, ConnInvariant, PTL

-----------------------------------------------------------------------------
(* Lab 5 implements the abstract crawl.                                     *)

Ended == {m.url : m \in Elements(messages)}

KnownUrls == visited \cup Elements(frontier) \cup {key}

FinishedUrls == visited \ Pending

(* A URL is in one place: entered, in transfer, or among the results; and   *)
(* the URL entered last is not lost.                                        *)
OnceInv ==
  /\ Pending \subseteq visited
  /\ running \cap Ended = {}
  /\ \A i, j \in DOMAIN messages : messages[i].url = messages[j].url => i = j
  /\ pc = "init" => key \notin running
  /\ pngs_collected = Len(phead)
  /\ program = "running" => key \in visited \cup Elements(frontier)

LEMMA ElementsAppend ==
  ASSUME NEW S, NEW s \in Seq(S), NEW e \in S
  PROVE  Elements(Append(s, e)) = Elements(s) \cup {e}
<1>1. /\ Append(s, e) \in Seq(S) /\ Len(s) \in Nat
      /\ Len(Append(s, e)) = Len(s) + 1
      /\ \A n \in 1 .. Len(s) : Append(s, e)[n] = s[n]
      /\ Append(s, e)[Len(s) + 1] = e
  BY AppendProperties, LenProperties
<1>2. DOMAIN s = 1 .. Len(s) /\ DOMAIN Append(s, e) = 1 .. Len(s) + 1
  BY <1>1, LenProperties
<1>3. ASSUME NEW n \in 1 .. Len(s) + 1
      PROVE  Append(s, e)[n] = e \/ (n \in 1 .. Len(s) /\ Append(s, e)[n] = s[n])
  BY <1>1
<1>4. Elements(Append(s, e)) \subseteq Elements(s) \cup {e}
  BY <1>2, <1>3 DEF Elements
<1>5. Elements(s) \subseteq Elements(Append(s, e)) /\ e \in Elements(Append(s, e))
  BY <1>1, <1>2 DEF Elements
<1> QED
  BY <1>4, <1>5

LEMMA ElementsTail ==
  ASSUME NEW S, NEW s \in Seq(S), s # <<>>
  PROVE  Elements(s) = {Head(s)} \cup Elements(Tail(s))
<1>1. /\ Len(s) \in Nat \ {0} /\ DOMAIN s = 1 .. Len(s)
      /\ Tail(s) \in Seq(S) /\ DOMAIN Tail(s) = 1 .. Len(s) - 1
      /\ Head(s) = s[1] /\ \A n \in 1 .. Len(s) - 1 : Tail(s)[n] = s[n + 1]
  BY HeadTailProperties, LenProperties, EmptySeq
<1>2. ASSUME NEW e, e \in Elements(s) PROVE e = Head(s) \/ e \in Elements(Tail(s))
  <2>1. PICK n \in 1 .. Len(s) : e = s[n]
    BY <1>1, <1>2 DEF Elements
  <2>2. CASE n = 1
    BY <1>1, <2>1, <2>2
  <2>3. CASE n # 1
    <3>1. n - 1 \in 1 .. Len(s) - 1 /\ (n - 1) + 1 = n
      BY <1>1, <2>3
    <3>2. Tail(s)[n - 1] = e
      BY <1>1, <2>1, <3>1
    <3> QED
      BY <1>1, <3>1, <3>2 DEF Elements
  <2> QED
    BY <2>2, <2>3
<1>3. ASSUME NEW e, e \in Elements(Tail(s)) PROVE e \in Elements(s)
  <2>1. PICK n \in 1 .. Len(s) - 1 : e = Tail(s)[n]
    BY <1>1, <1>3 DEF Elements
  <2>2. n + 1 \in 1 .. Len(s) /\ e = s[n + 1]
    BY <1>1, <2>1
  <2> QED
    BY <1>1, <2>2 DEF Elements
<1>4. Head(s) \in Elements(s)
  BY <1>1 DEF Elements
<1> QED
  BY <1>2, <1>3, <1>4

LEMMA ElementsConcat ==
  ASSUME NEW S, NEW s \in Seq(S), NEW r \in Seq(S)
  PROVE  Elements(s \o r) = Elements(s) \cup Elements(r)
<1>1. /\ Len(s) \in Nat /\ Len(r) \in Nat
      /\ DOMAIN s = 1 .. Len(s) /\ DOMAIN r = 1 .. Len(r)
  BY LenProperties
<1>2. /\ s \o r \in Seq(S) /\ Len(s \o r) = Len(s) + Len(r)
      /\ \A i \in 1 .. Len(s) + Len(r) :
           (s \o r)[i] = IF i <= Len(s) THEN s[i] ELSE r[i - Len(s)]
  BY ConcatProperties
<1>3. DOMAIN (s \o r) = 1 .. Len(s) + Len(r)
  BY <1>2, LenProperties
<1>4. ASSUME NEW e \in Elements(s \o r) PROVE e \in Elements(s) \cup Elements(r)
  <2>1. PICK i \in 1 .. Len(s) + Len(r) : e = (s \o r)[i]
    BY <1>3 DEF Elements
  <2>2. CASE i <= Len(s)
    BY <1>1, <1>2, <2>1, <2>2 DEF Elements
  <2>3. CASE ~ (i <= Len(s))
    <3>1. i - Len(s) \in 1 .. Len(r) /\ e = r[i - Len(s)]
      BY <1>1, <1>2, <2>1, <2>3
    <3> QED
      BY <1>1, <3>1 DEF Elements
  <2> QED
    BY <2>2, <2>3
<1>5. ASSUME NEW e \in Elements(s) PROVE e \in Elements(s \o r)
  <2>1. PICK i \in 1 .. Len(s) : e = s[i]
    BY <1>1 DEF Elements
  <2>2. i \in 1 .. Len(s) + Len(r) /\ e = (s \o r)[i]
    BY <1>1, <1>2, <2>1
  <2> QED
    BY <1>3, <2>2 DEF Elements
<1>6. ASSUME NEW e \in Elements(r) PROVE e \in Elements(s \o r)
  <2>1. PICK i \in 1 .. Len(r) : e = r[i]
    BY <1>1 DEF Elements
  <2>2. /\ i + Len(s) \in 1 .. Len(s) + Len(r) /\ ~ (i + Len(s) <= Len(s))
        /\ (i + Len(s)) - Len(s) = i
    BY <1>1, <2>1
  <2>3. e = (s \o r)[i + Len(s)]
    BY <1>2, <2>1, <2>2
  <2> QED
    BY <1>3, <2>2, <2>3 DEF Elements
<1> QED
  BY <1>4, <1>5, <1>6

(* A transfer ends: its message is the only one for its URL. *)
LEMMA MessageAppended ==
  ASSUME NEW u \in URL, NEW ok \in BOOLEAN, messages \in Seq(Message),
         messages' = Append(messages, [url |-> u, ok |-> ok]), u \notin Ended,
         \A i, j \in DOMAIN messages : messages[i].url = messages[j].url => i = j
  PROVE  /\ Ended' = Ended \cup {u}
         /\ \A i, j \in DOMAIN messages' : messages'[i].url = messages'[j].url => i = j
<1> DEFINE m == [url |-> u, ok |-> ok]
<1>1. m \in Message /\ m.url = u
  BY DEF Message
<1>2. Elements(messages') = Elements(messages) \cup {m}
  BY <1>1, ElementsAppend
<1>3. Ended' = {x.url : x \in Elements(messages')}
  BY DEF Ended, Elements
<1>4. Ended' = Ended \cup {u}
  BY <1>1, <1>2, <1>3 DEF Ended
<1>5. /\ Len(messages) \in Nat /\ DOMAIN messages = 1 .. Len(messages)
      /\ messages' \in Seq(Message) /\ Len(messages') = Len(messages) + 1
      /\ \A i \in 1 .. Len(messages) : messages'[i] = messages[i]
      /\ messages'[Len(messages) + 1] = m
  BY <1>1, AppendProperties, LenProperties
<1>6. DOMAIN messages' = 1 .. Len(messages) + 1
  BY <1>5, LenProperties
<1>7. \A i \in 1 .. Len(messages) : messages[i].url # u
  BY <1>5 DEF Ended, Elements
<1>8. \A i \in 1 .. Len(messages) + 1 : i \in 1 .. Len(messages) \/ i = Len(messages) + 1
  BY <1>5
<1>9. ASSUME NEW i \in 1 .. Len(messages) + 1, NEW j \in 1 .. Len(messages) + 1,
             messages'[i].url = messages'[j].url
      PROVE  i = j
  BY <1>1, <1>5, <1>7, <1>8, <1>9
<1> QED
  BY <1>4, <1>6, <1>9

(* A result is read: none is left for its URL. *)
LEMMA MessageRead ==
  ASSUME messages \in Seq(Message), messages # <<>>, messages' = Tail(messages),
         \A i, j \in DOMAIN messages : messages[i].url = messages[j].url => i = j
  PROVE  /\ Head(messages) \in Message /\ Head(messages).url \in URL
         /\ Ended = Ended' \cup {Head(messages).url} /\ Head(messages).url \notin Ended'
         /\ \A i, j \in DOMAIN messages' : messages'[i].url = messages'[j].url => i = j
<1> DEFINE m == Head(messages)
<1>1. Elements(messages) = {m} \cup Elements(messages')
  BY ElementsTail
<1>2. Ended' = {x.url : x \in Elements(messages')}
  BY DEF Ended, Elements
<1>3. Ended = Ended' \cup {m.url}
  BY <1>1, <1>2 DEF Ended
<1>4. /\ Len(messages) \in Nat \ {0} /\ DOMAIN messages = 1 .. Len(messages)
      /\ messages' \in Seq(Message) /\ DOMAIN messages' = 1 .. Len(messages) - 1
      /\ m = messages[1] /\ m \in Message
      /\ \A n \in 1 .. Len(messages) - 1 : messages'[n] = messages[n + 1]
  BY HeadTailProperties, LenProperties, EmptySeq
<1>5. \A n \in 1 .. Len(messages) - 1 : n + 1 \in DOMAIN messages /\ n + 1 # 1
  BY <1>4
<1>6. m.url \notin Ended'
  <2>1. 1 \in DOMAIN messages
    BY <1>4
  <2>2. ASSUME NEW n \in 1 .. Len(messages) - 1 PROVE messages'[n].url # m.url
    BY <1>4, <1>5, <2>1
  <2> QED
    BY <1>2, <1>4, <2>2 DEF Elements
<1>7. ASSUME NEW i \in 1 .. Len(messages) - 1, NEW j \in 1 .. Len(messages) - 1,
             messages'[i].url = messages'[j].url
      PROVE  i = j
  <2>1. messages[i + 1].url = messages[j + 1].url
    BY <1>4, <1>7
  <2>2. i + 1 = j + 1
    BY <1>5, <2>1
  <2> QED
    BY <2>2
<1>8. m.url \in URL
  BY <1>4 DEF Message
<1> QED
  BY <1>3, <1>4, <1>6, <1>7, <1>8

SameCrawl ==
  /\ UNCHANGED <<target, KnownUrls, visited, FinishedUrls, failed, phead>>
  /\ program' # "exited"

(* Every step is one of the abstract crawl, or changes nothing of it:       *)
(* visiting a URL is entering it in the table; reading its result finishes  *)
(* it, with all its links, its PNG, or its failure; Exit ends the crawl.    *)
LEMMA StepCrawls ==
  ASSUME TypeOK, ConnInv, OnceInv, program = "running", WorkStep \/ WorkFault
  PROVE  OnceInv' /\ (SameCrawl \/ Crawling!Next)
<1> USE DEF connections, found, batch, options
<1>1. /\ pc \in {"head", "load", "init", "transfer", "read"}
      /\ key \in URL /\ frontier \in Seq(URL) /\ phead \in Seq(URL)
      /\ messages \in Seq(Message) /\ visited \subseteq URL
      /\ pngs_collected \in Nat /\ target \in Nat
      /\ pc \in {"head", "load", "init"} => messages = <<>>
      /\ pc \in {"head", "read"} => running = {}
  BY WebAssumption DEF TypeOK, ConnInv, Message
<1>2. /\ running \cup Ended \subseteq visited /\ running \cap Ended = {}
      /\ pc = "init" => key \in visited /\ key \notin running
      /\ \A i, j \in DOMAIN messages : messages[i].url = messages[j].url => i = j
      /\ pngs_collected = Len(phead)
      /\ key \in visited \cup Elements(frontier)
  BY DEF OnceInv, Pending, Ended
<1>3. /\ pc = "init" => Pending = running \cup Ended \cup {key}
      /\ pc # "init" => Pending = running \cup Ended
      /\ pc' = "init" => Pending' = running' \cup Ended' \cup {key'}
      /\ pc' # "init" => Pending' = running' \cup Ended'
  BY DEF Pending, Ended
<1>4. messages = <<>> => Ended = {}
  BY DEF Ended, Elements
<1>5. /\ messages' = messages => Ended' = Ended
      /\ frontier' = frontier => Elements(frontier)' = Elements(frontier)
      /\ Elements(frontier)' = Elements(frontier')
  BY DEF Ended, Elements
<1>6. frontier # <<>> =>
        /\ Elements(frontier) = {Head(frontier)} \cup Elements(Tail(frontier))
        /\ Head(frontier) \in URL
  BY <1>1, ElementsTail, HeadTailProperties
<1>7. ASSUME UNCHANGED <<target, key, frontier, visited, connections, found, failed>>,
             program' # "exited", pc = "init" <=> pc' = "init"
      PROVE  OnceInv' /\ SameCrawl
  <2>1. UNCHANGED <<Pending, KnownUrls, FinishedUrls>> /\ Ended' = Ended
    BY <1>3, <1>5, <1>7 DEF KnownUrls, FinishedUrls
  <2> QED
    BY <1>2, <1>5, <1>7, <2>1 DEF OnceInv, SameCrawl
<1>8. CASE BeginBatch \/ Dispatch \/ AllEnded \/ EndBatch
  <2>1. /\ UNCHANGED <<target, key, frontier, visited, connections, found, failed, program>>
        /\ pc # "init" /\ pc' # "init"
    BY <1>8 DEF BeginBatch, Dispatch, AllEnded, EndBatch, Goto
  <2> QED
    BY <1>7, <2>1
<1>9. CASE NoHandle \/ LogFails \/ WaitFails
  <2>1. /\ UNCHANGED <<target, key, frontier, visited, connections, found, failed, pc>>
        /\ program' # "exited"
    BY <1>9 DEF NoHandle, LogFails, WaitFails, Ends
  <2> QED
    BY <1>7, <2>1
<1>10. CASE Exit
  <2>1. /\ UNCHANGED <<target, key, frontier, visited, connections, found, failed, pc>>
        /\ pc = "head" /\ program' = "exited" /\ (TargetReached \/ frontier = <<>>)
    BY <1>10 DEF Exit, Ends
  <2>2. UNCHANGED <<Pending, KnownUrls, FinishedUrls>> /\ Ended' = Ended
    BY <1>3, <1>5, <2>1 DEF KnownUrls, FinishedUrls
  <2>3. Len(phead) >= target \/ KnownUrls = FinishedUrls
    <3>1. CASE TargetReached
      BY <1>2, <3>1 DEF TargetReached
    <3>2. CASE frontier = <<>>
      <4>1. Elements(frontier) = {} /\ Pending = {}
        BY <1>1, <1>3, <1>4, <2>1, <3>2 DEF Elements
      <4> QED
        BY <1>2, <4>1 DEF KnownUrls, FinishedUrls
    <3> QED
      BY <2>1, <3>1, <3>2
  <2>4. Crawling!End
    BY <2>1, <2>2, <2>3 DEF Crawling!End, KnownUrls, FinishedUrls
  <2>5. OnceInv'
    BY <1>2, <2>1, <2>2 DEF OnceInv
  <2> QED
    BY <2>4, <2>5 DEF Crawling!Next
<1>11. CASE SkipVisited
  <2>1. /\ UNCHANGED <<target, key, visited, connections, found, failed, program, pc>>
        /\ pc = "load" /\ frontier # <<>> /\ frontier' = Tail(frontier)
        /\ Head(frontier) \in visited
    BY <1>11 DEF SkipVisited, Loading
  <2>2. UNCHANGED <<Pending, KnownUrls, FinishedUrls>> /\ Ended' = Ended
    <3>1. Ended' = Ended /\ Pending' = Pending
      BY <1>3, <1>5, <2>1
    <3>2. Elements(frontier) = {Head(frontier)} \cup Elements(frontier)'
      BY <1>5, <1>6, <2>1
    <3> QED
      BY <2>1, <3>1, <3>2 DEF KnownUrls, FinishedUrls
  <2>3. key \in visited \cup Elements(frontier)'
    BY <1>2, <1>5, <1>6, <2>1
  <2> QED
    BY <1>2, <2>1, <2>2, <2>3 DEF OnceInv, SameCrawl
<1>12. CASE TableFull
  <2>1. /\ UNCHANGED <<target, visited, connections, found, failed, pc>>
        /\ pc = "load" /\ frontier # <<>> /\ frontier' = Tail(frontier)
        /\ key' = Head(frontier) /\ program' = "crashed"
    BY <1>12 DEF TableFull, Loading, Ends
  <2>2. UNCHANGED <<Pending, KnownUrls, FinishedUrls>> /\ Ended' = Ended
    <3>1. Ended' = Ended /\ Pending' = Pending
      BY <1>3, <1>5, <2>1
    <3>2. Elements(frontier) = {key'} \cup Elements(frontier)'
      BY <1>5, <1>6, <2>1
    <3> QED
      BY <1>2, <2>1, <3>1, <3>2 DEF KnownUrls, FinishedUrls
  <2> QED
    BY <1>2, <2>1, <2>2 DEF OnceInv, SameCrawl
<1>13. CASE EnterUrl
  <2> DEFINE u == Head(frontier)
  <2>1. /\ UNCHANGED <<target, connections, found, failed, program>>
        /\ pc = "load" /\ pc' = "init" /\ frontier # <<>> /\ frontier' = Tail(frontier)
        /\ key' = u /\ u \notin visited /\ visited' = visited \cup {u}
    BY <1>13 DEF EnterUrl, Loading, Goto
  <2>2. /\ Pending' = Pending \cup {u} /\ Ended' = Ended /\ u \in URL
        /\ KnownUrls' = KnownUrls /\ u \in KnownUrls
    BY <1>2, <1>3, <1>5, <1>6, <2>1 DEF KnownUrls
  <2>3. Pending \subseteq visited
    BY DEF OnceInv
  <2>4. FinishedUrls' = FinishedUrls
    BY <2>1, <2>2, <2>3 DEF FinishedUrls
  <2>5. Crawling!Visit(u)
    BY <2>1, <2>2, <2>4 DEF Crawling!Visit, KnownUrls, FinishedUrls
  <2>6. OnceInv'
    BY <1>2, <2>1, <2>2, <2>3 DEF OnceInv
  <2> QED
    BY <2>2, <2>5, <2>6 DEF Crawling!Next
<1>14. CASE LoadTransfer
  <2>1. /\ UNCHANGED <<target, key, frontier, messages, visited, found, failed, program>>
        /\ pc = "init" /\ pc' = "load" /\ running' = running \cup {key}
    BY <1>14 DEF LoadTransfer, Goto
  <2>2. Ended = {} /\ Ended' = {}
    BY <1>1, <1>4, <1>5, <2>1
  <2>3. UNCHANGED <<Pending, KnownUrls, FinishedUrls>>
    BY <1>3, <1>5, <2>1, <2>2 DEF KnownUrls, FinishedUrls
  <2>4. Pending \subseteq visited
    BY DEF OnceInv
  <2>5. OnceInv'
    BY <1>2, <1>5, <2>1, <2>2, <2>3, <2>4 DEF OnceInv
  <2> QED
    BY <2>1, <2>3, <2>5 DEF SameCrawl
<1>15. CASE \E u \in URL : Transfer(u) \/ TransferFails(u)
  <2>1. PICK u \in URL, ok \in BOOLEAN : TransferEnds(u, ok) /\ program' = program
    BY <1>15 DEF Transfer, TransferFails, TransferEnds
  <2>2. /\ UNCHANGED <<target, key, frontier, visited, found, failed, program>>
        /\ pc = "transfer" /\ pc' = "transfer" /\ u \in running /\ running' = running \ {u}
        /\ messages' = Append(messages, [url |-> u, ok |-> ok])
    BY <2>1 DEF TransferEnds
  <2>3. /\ Ended' = Ended \cup {u}
        /\ \A i, j \in DOMAIN messages' : messages'[i].url = messages'[j].url => i = j
    BY <1>1, <1>2, <2>2, MessageAppended
  <2>4. UNCHANGED <<Pending, KnownUrls, FinishedUrls>>
    <3>1. running' \cup Ended' = running \cup Ended
      BY <2>2, <2>3
    <3>2. Pending' = Pending
      BY <1>3, <2>2, <3>1
    <3>3. visited' = visited /\ key' = key /\ Elements(frontier)' = Elements(frontier)
      BY <1>5, <2>2
    <3> QED
      BY <3>2, <3>3 DEF KnownUrls, FinishedUrls
  <2>5. Pending \subseteq visited
    BY DEF OnceInv
  <2>6. running' \cap Ended' = {}
    BY <1>2, <2>2, <2>3
  <2>7. OnceInv'
    BY <1>2, <1>5, <2>2, <2>3, <2>4, <2>5, <2>6 DEF OnceInv
  <2> QED
    BY <2>2, <2>4, <2>7 DEF SameCrawl
<1>16. CASE ReadMessage
  <2> DEFINE m == Head(messages)
             u == m.url
  <2>1. /\ UNCHANGED <<target, key, visited, program, running>>
        /\ pc = "read" /\ pc' = "read" /\ messages # <<>> /\ messages' = Tail(messages)
        /\ \/ ProcessData(u) /\ UNCHANGED failed
           \/ failed' = failed \cup {u} /\ UNCHANGED <<frontier, found>>
    BY <1>16 DEF ReadMessage
  <2>2. /\ u \in URL /\ Ended = Ended' \cup {u} /\ u \notin Ended'
        /\ \A i, j \in DOMAIN messages' : messages'[i].url = messages'[j].url => i = j
    BY <1>1, <1>2, <2>1, MessageRead
  <2>3. /\ running = {} /\ Pending = Pending' \cup {u} /\ u \notin Pending'
        /\ u \in visited /\ Pending' \subseteq visited
    BY <1>1, <1>2, <1>3, <2>1, <2>2
  <2>4. u \in visited \ FinishedUrls /\ FinishedUrls' = FinishedUrls \cup {u}
    BY <2>1, <2>3 DEF FinishedUrls
  <2>5. ASSUME pngs_collected' = Len(phead'), Elements(frontier) \subseteq Elements(frontier')
        PROVE  OnceInv'
    BY <1>2, <1>5, <2>1, <2>2, <2>3, <2>5 DEF OnceInv
  <2>6. CASE failed' = failed \cup {u} /\ UNCHANGED <<frontier, found>>
    <3>1. KnownUrls' = KnownUrls
      BY <1>5, <2>1, <2>6 DEF KnownUrls
    <3>2. Crawling!Fail(u)
      BY <2>1, <2>4, <2>6, <3>1 DEF Crawling!Fail, Crawling!Finish, KnownUrls, FinishedUrls
    <3> QED
      BY <1>2, <1>5, <2>2, <2>5, <2>6, <3>2 DEF Crawling!Next
  <2>7. CASE u \in IsPng /\ AddPng(u) /\ UNCHANGED <<frontier, failed>>
    <3>1. KnownUrls' = KnownUrls
      BY <1>5, <2>1, <2>7 DEF KnownUrls
    <3>2. phead' = IF Len(phead) < target THEN <<EffectiveURL[u]>> \o phead ELSE phead
      BY <1>2, <2>7 DEF AddPng
    <3>3. Crawling!FinishPng(u)
      BY <2>1, <2>4, <2>7, <3>1, <3>2
      DEF Crawling!FinishPng, Crawling!Finish, KnownUrls, FinishedUrls
    <3>4. pngs_collected' = Len(phead')
      <4>1. CASE pngs_collected < target
        <5>1. <<EffectiveURL[u]>> \in Seq(URL) /\ Len(<<EffectiveURL[u]>>) = 1
          BY <2>2, WebAssumption
        <5>2. Len(<<EffectiveURL[u]>> \o phead) = 1 + Len(phead)
          BY <1>1, <5>1, ConcatProperties
        <5>3. Len(phead') = 1 + Len(phead) /\ pngs_collected' = pngs_collected + 1
          BY <2>7, <4>1, <5>2 DEF AddPng
        <5> QED
          BY <1>1, <1>2, <5>3
      <4>2. CASE ~ (pngs_collected < target)
        BY <1>2, <2>7, <4>2 DEF AddPng
      <4> QED
        BY <4>1, <4>2
    <3> QED
      BY <1>5, <2>2, <2>5, <2>7, <3>3, <3>4 DEF Crawling!Next
  <2>8. CASE u \notin IsPng /\ FindHttp(u) /\ UNCHANGED <<found, failed>>
    <3>1. Links[u] \in Seq(URL)
      BY <2>2, WebAssumption
    <3>2. Elements(frontier') = Elements(frontier) \cup Elements(Links[u])
      BY <1>1, <2>8, <3>1, ElementsConcat DEF FindHttp
    <3>3. Crawling!LinksOf(u) = Elements(Links[u])
      BY DEF Crawling!LinksOf, Elements
    <3>4. KnownUrls' = KnownUrls \cup Crawling!LinksOf(u)
      BY <1>5, <2>1, <3>2, <3>3 DEF KnownUrls
    <3>5. Crawling!FinishPage(u)
      BY <2>1, <2>4, <2>8, <3>4
      DEF Crawling!FinishPage, Crawling!Finish, KnownUrls, FinishedUrls
    <3> QED
      BY <1>2, <2>2, <2>5, <2>8, <3>2, <3>5 DEF Crawling!Next
  <2> QED
    BY <2>1, <2>6, <2>7, <2>8 DEF ProcessData
<1> QED
  BY <1>7, <1>8, <1>9, <1>10, <1>11, <1>12, <1>13, <1>14, <1>15, <1>16 DEF WorkStep, WorkFault

LEMMA OnceInit == Init => OnceInv /\ Crawling!Init
<1> SUFFICES ASSUME Init PROVE OnceInv /\ Crawling!Init
  OBVIOUS
<1>1. Elements(<<Seed>>) = {Seed} /\ Elements(<<>>) = {} /\ Len(<<>>) = 0
  BY EmptySeq DEF Elements
<1>2. /\ key = Seed /\ frontier = <<Seed>> /\ messages = <<>> /\ running = {} /\ visited = {}
      /\ pc = "head" /\ phead = <<>> /\ pngs_collected = 0 /\ failed = {}
      /\ program = "running" /\ target \in Nat
  BY WebAssumption DEF Init
<1>3. Ended = {} /\ Pending = {} /\ DOMAIN messages = {}
  BY <1>1, <1>2 DEF Ended, Pending
<1>4. OnceInv
  BY <1>1, <1>2, <1>3 DEF OnceInv
<1>5. Crawling!Init
  BY <1>1, <1>2, <1>3 DEF Crawling!Init
<1> QED
  BY <1>4, <1>5

(* Lab 5 implements the same abstract crawl as Lab 4, whatever the number   *)
(* of connections and the order in which libcurl ends the transfers of a    *)
(* batch: no URL is loaded twice, no link of a page that was fetched is     *)
(* lost, the PNGs of one batch do not exceed the target, and the program    *)
(* exits only with the target reached or every known URL visited.           *)
THEOREM Lab5IsACrawl == Spec => ImplementsCrawl
<1>1. TypeOK /\ ConnInv /\ OnceInv /\ [Next]_vars =>
        OnceInv' /\ [Crawling!Next]_Crawling!vars
  <2> SUFFICES ASSUME TypeOK, ConnInv, OnceInv, [Next]_vars
               PROVE  OnceInv' /\ [Crawling!Next]_Crawling!vars
    OBVIOUS
  <2>1. CASE UNCHANGED vars
    <3>1. UNCHANGED <<target, key, frontier, visited, running, messages, phead, pngs_collected,
                      failed, program, pc>>
      BY <2>1 DEF vars, options, batch, connections, found
    <3>2. OnceInv'
      BY <3>1 DEF OnceInv, Pending, Ended, Elements
    <3>3. UNCHANGED Crawling!vars
      BY <3>1 DEF Crawling!vars, Pending, Elements
    <3> QED
      BY <3>2, <3>3
  <2>2. CASE Next
    <3>1. program = "running" /\ OnceInv' /\ (SameCrawl \/ Crawling!Next)
      BY <2>2, StepCrawls DEF Next
    <3>2. SameCrawl => UNCHANGED Crawling!vars
      BY <3>1 DEF SameCrawl, Crawling!vars, KnownUrls, FinishedUrls
    <3> QED
      BY <3>1, <3>2
  <2> QED
    BY <2>1, <2>2
<1> QED
  BY <1>1, OnceInit, ConnInvariant, PTL DEF Spec, ImplementsCrawl, Crawling!Spec


-----------------------------------------------------------------------------
(* The receive buffer.                                                      *)

Bytes == [answer : Nat, place : Nat]

Stages == {"perform", "headers", "body", "returned", "undefined"}

RecvTypeOK ==
  /\ mem \in Seq(Bytes)
  /\ size \in Nat /\ max_size \in Nat /\ start \in Nat
  /\ seq \in Strips \cup {-1}
  /\ stage \in Stages
  /\ retrieved \subseteq Strips
  /\ answer \in [number : Nat, strip : Strips \cup {NoStrip}, length : Nat, calls : Nat]
  /\ output \in [Strips -> Seq(Bytes) \cup {NoContent}]

(* The buffer holds what was received and one byte more. *)
BufferInv == stage # "returned" => Len(mem) = size /\ size < max_size

(* Between two answers start has caught up with the buffer. *)
SliceInv ==
  /\ stage \in {"perform", "headers"} => start = size
  /\ stage = "headers" => answer.length = 0
  /\ SliceIsAnswer

(* seq is the strip of the answer that arrives, or one that was taken       *)
(* before, or -1.                                                           *)
OldSeq == seq = -1 \/ seq \in retrieved

SeqInv ==
  /\ stage \in {"perform", "headers"} => OldSeq
  /\ stage = "body" => answer.strip = seq \/ OldSeq

FileInv == \A s \in Strips : output[s] # NoContent => s \in retrieved

IInv == RecvTypeOK /\ BufferInv /\ SliceInv /\ SeqInv /\ FileInv

(* What TakeStrip writes: the slice up to some byte. *)
LEMMA SlicePrefix ==
  ASSUME IInv, stage = "body", NEW end \in start .. size
  PROVE  /\ SubSeq(mem, start + 1, end) \in Seq(Bytes)
         /\ \A i \in DOMAIN SubSeq(mem, start + 1, end) :
              SubSeq(mem, start + 1, end)[i] = Byte(i)
<1> DEFINE slice == SubSeq(mem, start + 1, end)
<1>1. /\ mem \in Seq(Bytes) /\ start \in Nat /\ size \in Nat /\ Len(mem) = size
      /\ answer.length \in Nat /\ size - start = answer.length
      /\ \A i \in 1 .. answer.length : mem[start + i] = Byte(i)
  BY DEF IInv, RecvTypeOK, BufferInv, SliceInv, SliceIsAnswer
<1>2. end \in Nat /\ end <= size
  BY <1>1
<1>3. slice \in Seq(Bytes) /\ Len(slice) = end - start
  BY <1>1, <1>2
<1>4. \A i \in 1 .. end - start : slice[i] = mem[start + i]
  BY <1>1, <1>2
<1>5. DOMAIN slice = 1 .. end - start
  BY <1>3, <1>2, <1>1
<1>6. ASSUME NEW i \in 1 .. end - start PROVE slice[i] = Byte(i)
  <2>1. i \in 1 .. answer.length
    BY <1>1, <1>2
  <2> QED
    BY <1>1, <1>4, <2>1
<1> QED
  BY <1>3, <1>5, <1>6

LEMMA InitInv == RecvInit => IInv
BY SizeAssumption, StripAssumption
DEF RecvInit, IInv, RecvTypeOK, BufferInv, SliceInv, SliceIsAnswer, SeqInv, OldSeq, FileInv, Bytes, Stages

(* A call of write_cb_curl3 appends to the slice and keeps the terminator's *)
(* place.                                                                   *)
LEMMA WriteKeepsInv ==
  ASSUME IInv, NEW n \in CallSizes, WriteCallback(n)
  PROVE  IInv'
<1> DEFINE more == [i \in 1 .. n |-> Byte(answer.length + i)]
<1>0. n \in Nat /\ BUF_SIZE \in Nat /\ BUF_INC \in Nat
  BY SizeAssumption
<1>1. /\ mem \in Seq(Bytes) /\ size \in Nat /\ max_size \in Nat /\ start \in Nat
      /\ answer.length \in Nat /\ answer.number \in Nat /\ answer.calls \in Nat
      /\ Len(mem) = size /\ size < max_size /\ size - start = answer.length
      /\ \A i \in 1 .. answer.length : mem[start + i] = Byte(i)
      /\ stage = "body"
  BY DEF IInv, RecvTypeOK, BufferInv, SliceInv, SliceIsAnswer, WriteCallback
<1>2. more \in Seq(Bytes) /\ Len(more) = n
  <2>1. \A i \in 1 .. n : Byte(answer.length + i) \in Bytes
    BY <1>0, <1>1 DEF Byte, Bytes
  <2> QED
    BY <1>0, <2>1
<1>3. /\ mem' \in Seq(Bytes) /\ Len(mem') = size + n
      /\ \A i \in 1 .. size : mem'[i] = mem[i]
      /\ \A i \in 1 .. n : mem'[size + i] = more[i]
  <2>1. mem' = mem \o more
    BY DEF WriteCallback
  <2> HIDE DEF more
  <2>2. /\ mem \o more \in Seq(Bytes) /\ Len(mem \o more) = Len(mem) + Len(more)
        /\ \A i \in 1 .. Len(mem) : (mem \o more)[i] = mem[i]
        /\ \A i \in 1 .. Len(more) : (mem \o more)[Len(mem) + i] = more[i]
    <3>1. mem \in Seq(Bytes) /\ more \in Seq(Bytes)
      BY <1>1, <1>2
    <3> QED
      BY <3>1
  <2>3. Len(mem) = size /\ Len(more) = n
    BY <1>1, <1>2
  <2> QED
    BY <2>1, <2>2, <2>3
<1>4. /\ answer' = [answer EXCEPT !.length = @ + n, !.calls = @ + 1]
      /\ size' = size + n /\ stage' = stage /\ start' = start
      /\ seq' = seq /\ retrieved' = retrieved /\ output' = output
  BY DEF WriteCallback
<1>5. /\ answer' \in [number : Nat, strip : Strips \cup {NoStrip}, length : Nat, calls : Nat]
      /\ answer'.length = answer.length + n /\ answer'.strip = answer.strip
      /\ answer'.number = answer.number
  <2>1. answer \in [number : Nat, strip : Strips \cup {NoStrip}, length : Nat, calls : Nat]
    BY DEF IInv, RecvTypeOK
  <2>2. answer' = [number |-> answer.number, strip |-> answer.strip,
                   length |-> answer.length + n, calls |-> answer.calls + 1]
    BY <2>1, <1>4
  <2>3. answer.length + n \in Nat /\ answer.calls + 1 \in Nat
    BY <1>0, <1>1
  <2> QED
    BY <2>1, <2>2, <2>3
<1>6. max_size' \in Nat /\ size' < max_size'
  <2>1. max_size' = Room(n)
    BY DEF WriteCallback
  <2>2. Room(n) \in Nat /\ size + n < Room(n)
    <3> HIDE DEF more
    <3>1. Larger(BUF_INC, n + 1) \in Nat /\ Larger(BUF_INC, n + 1) >= n + 1
      BY <1>0 DEF Larger
    <3>2. CASE size + n + 1 > max_size
      BY <1>0, <1>1, <3>1, <3>2 DEF Room
    <3>3. CASE ~(size + n + 1 > max_size)
      BY <1>0, <1>1, <3>3 DEF Room
    <3> QED
      BY <3>2, <3>3
  <2> QED
    BY <1>4, <2>1, <2>2
<1>7. RecvTypeOK'
  <2>1. RecvTypeOK
    BY DEF IInv
  <2>2. size' \in Nat
    BY <1>0, <1>1, <1>4
  <2> HIDE DEF more
  <2> QED
    BY <1>3, <1>4, <1>5, <1>6, <2>1, <2>2 DEF RecvTypeOK
<1>8. BufferInv'
  BY <1>3, <1>4, <1>6 DEF BufferInv
<1>9. SliceInv'
  <2>1. size' - start' = answer'.length
    BY <1>0, <1>1, <1>4, <1>5
  <2>2. ASSUME NEW i \in 1 .. answer'.length PROVE mem'[start' + i] = Byte(i)'
    <3>1. Byte(i)' = Byte(i)
      BY <1>5 DEF Byte
    <3>2. CASE i <= answer.length
      <4>1. start + i \in 1 .. size /\ i \in 1 .. answer.length
        BY <3>2, <1>0, <1>1, <1>5
      <4>2. mem'[start + i] = mem[start + i] /\ mem[start + i] = Byte(i)
        BY <4>1, <1>1, <1>3
      <4> QED
        BY <4>2, <3>1, <1>4
    <3>3. CASE i > answer.length
      <4>1. i - answer.length \in 1 .. n /\ start + i = size + (i - answer.length)
        BY <3>3, <1>0, <1>1, <1>5, SMTT(20)
      <4>2. mem'[start' + i] = more[i - answer.length]
        BY <4>1, <1>3, <1>4
      <4>3. more[i - answer.length] = Byte(i)
        BY <4>1, <1>1, <3>3
      <4> QED
        BY <4>2, <4>3, <3>1
    <3>4. i \in Nat /\ answer.length \in Nat
      BY <1>0, <1>1, <1>5
    <3>5. i <= answer.length \/ i > answer.length
      BY <3>4
    <3> QED
      BY <3>2, <3>3, <3>5, Zenon
  <2> QED
    BY <2>1, <2>2, <1>1, <1>4 DEF SliceInv, SliceIsAnswer
<1>10. SeqInv' /\ FileInv'
  BY <1>1, <1>4, <1>5 DEF IInv, SeqInv, OldSeq, FileInv
<1> QED
  BY <1>7, <1>8, <1>9, <1>10 DEF IInv

LEMMA TakeKeepsInv ==
  ASSUME IInv, TakeStrip
  PROVE  IInv'
<1>1. /\ stage = "body" /\ seq # -1 /\ seq \notin retrieved
      /\ retrieved' = retrieved \cup {seq} /\ start' = size /\ stage' = "perform"
      /\ mem' = mem /\ size' = size /\ max_size' = max_size /\ seq' = seq /\ answer' = answer
  BY DEF TakeStrip
<1>2. start \in Nat /\ size \in Nat /\ size - start = answer.length /\ answer.length \in Nat
  BY <1>1 DEF IInv, RecvTypeOK, SliceInv, SliceIsAnswer
<1>3. output' = output
      \/ \E end \in start .. size : output' = [output EXCEPT ![seq] = SubSeq(mem, start + 1, end)]
  BY DEF TakeStrip
<1>4. seq \in Strips
  BY <1>1 DEF IInv, RecvTypeOK
<1>5. output \in [Strips -> Seq(Bytes) \cup {NoContent}]
  BY DEF IInv, RecvTypeOK
<1>6. /\ output' \in [Strips -> Seq(Bytes) \cup {NoContent}]
      /\ \A s \in Strips : s # seq => output'[s] = output[s]
  <2>1. CASE output' = output
    BY <2>1, <1>5
  <2>2. ASSUME NEW end \in start .. size,
               output' = [output EXCEPT ![seq] = SubSeq(mem, start + 1, end)]
        PROVE  /\ output' \in [Strips -> Seq(Bytes) \cup {NoContent}]
               /\ \A s \in Strips : s # seq => output'[s] = output[s]
    <3>1. SubSeq(mem, start + 1, end) \in Seq(Bytes)
      BY <1>1, SlicePrefix
    <3> QED
      BY <2>2, <3>1, <1>4, <1>5
  <2> QED
    BY <1>3, <2>1, <2>2
<1>7. RecvTypeOK'
  BY <1>1, <1>2, <1>4, <1>6 DEF IInv, RecvTypeOK, Stages
<1>8. BufferInv' /\ SliceInv' /\ SeqInv'
  BY <1>1 DEF IInv, BufferInv, SliceInv, SliceIsAnswer, SeqInv, OldSeq
<1>9. FileInv'
  BY <1>1, <1>6 DEF IInv, FileInv
<1> QED
  BY <1>7, <1>8, <1>9 DEF IInv

LEMMA StepKeepsInv == IInv /\ [RecvNext]_recv_vars => IInv'
<1> SUFFICES ASSUME IInv, [RecvNext]_recv_vars PROVE IInv'
  OBVIOUS
<1> USE StripAssumption
<1>1. CASE InitFailed
  BY <1>1 DEF IInv, InitFailed, RecvTypeOK, BufferInv, SliceInv, SliceIsAnswer, SeqInv, OldSeq, FileInv, Stages
<1>2. CASE Perform
  <2>1. answer' \in [number : Nat, strip : Strips \cup {NoStrip}, length : Nat, calls : Nat]
        /\ answer'.length = 0
    BY <1>2 DEF IInv, Perform, RecvTypeOK
  <2> QED
    BY <1>2, <2>1 DEF IInv, Perform, RecvTypeOK, BufferInv, SliceInv, SliceIsAnswer, SeqInv, OldSeq, FileInv, Stages
<1>3. CASE Headers
  <2>1. /\ stage = "headers" /\ stage' = "body"
        /\ seq' = IF answer.strip = NoStrip THEN seq ELSE answer.strip
        /\ mem' = mem /\ size' = size /\ max_size' = max_size /\ start' = start
        /\ retrieved' = retrieved /\ answer' = answer /\ output' = output
    BY <1>3 DEF Headers
  <2>2. RecvTypeOK' /\ BufferInv' /\ FileInv'
    BY <2>1 DEF IInv, RecvTypeOK, BufferInv, FileInv, Stages
  <2>3. SeqInv'
    BY <2>1 DEF IInv, RecvTypeOK, SeqInv, OldSeq
  <2>4. SliceInv'
    <3>1. start = size /\ size \in Nat /\ answer.length = 0
      BY <2>1 DEF IInv, RecvTypeOK, SliceInv
    <3>2. size' - start' = answer'.length /\ 1 .. answer'.length = {}
      BY <2>1, <3>1
    <3> QED
      BY <2>1, <3>2 DEF SliceInv, SliceIsAnswer
  <2> QED
    BY <2>2, <2>3, <2>4 DEF IInv
<1>4. ASSUME NEW n \in CallSizes, WriteCallback(n) PROVE IInv'
  BY <1>4, WriteKeepsInv
<1>5. CASE PerformFails
  BY <1>5 DEF IInv, PerformFails, RecvTypeOK, BufferInv, SliceInv, SliceIsAnswer, SeqInv, OldSeq, FileInv, Stages
<1>6. CASE TakeStrip
  BY <1>6, TakeKeepsInv
<1>7. CASE DropStrip
  BY <1>7 DEF IInv, DropStrip, RecvTypeOK, BufferInv, SliceInv, SliceIsAnswer, SeqInv, OldSeq, FileInv, Stages
<1>8. CASE IndexMinusOne
  BY <1>8 DEF IInv, IndexMinusOne, RecvTypeOK, BufferInv, SliceInv, SliceIsAnswer, SeqInv, OldSeq, FileInv, Stages
<1>9. ASSUME NEW s \in Strips, TakenElsewhere(s) PROVE IInv'
  <2>1. /\ retrieved' = retrieved \cup {s}
        /\ UNCHANGED <<mem, size, max_size, seq, start, stage, answer, output>>
    BY <1>9 DEF TakenElsewhere
  <2>2. RecvTypeOK' /\ BufferInv' /\ FileInv'
    BY <2>1 DEF IInv, RecvTypeOK, BufferInv, FileInv
  <2>3. SliceInv'
    BY <2>1 DEF IInv, SliceInv, SliceIsAnswer, Byte
  <2>4. SeqInv'
    BY <2>1 DEF IInv, SeqInv, OldSeq
  <2> QED
    BY <2>2, <2>3, <2>4 DEF IInv
<1>10. CASE Return
  BY <1>10 DEF IInv, Return, RecvTypeOK, BufferInv, SliceInv, SliceIsAnswer, SeqInv, OldSeq, FileInv, Stages
<1>11. CASE UNCHANGED recv_vars
  BY <1>11 DEF IInv, recv_vars, RecvTypeOK, BufferInv, SliceInv, SliceIsAnswer, Byte, SeqInv, OldSeq, FileInv
<1> QED
  BY <1>1, <1>2, <1>3, <1>4, <1>5, <1>6, <1>7, <1>8, <1>9, <1>10, <1>11 DEF RecvNext

LEMMA Invariant == RecvSpec => []IInv
<1> QED
  BY InitInv, StepKeepsInv, PTL DEF RecvSpec

-----------------------------------------------------------------------------
(* The terminator of write_cb_curl3 is always inside the buffer, and the    *)
(* slice get_segment writes to a file is exactly the answer that has just   *)
(* come, for any sizes of the buffer, its increment and the pieces, and any *)
(* number of answers, calls and strips.                                     *)
THEOREM BufferCorrect == RecvSpec => []BufferHoldsAnswer
<1>1. IInv => BufferHoldsAnswer
  BY DEF IInv, BufferInv, SliceInv, BufferHoldsAnswer, RoomForTerminator
<1> QED
  BY <1>1, Invariant, PTL

(* A file is written once by a thread, from the first byte of an answer     *)
(* that named its strip.                                                    *)
THEOREM FilesFromTheirAnswers == RecvSpec => FileFromItsAnswer
<1> DEFINE Good(s) ==
      output'[s] # output[s] =>
        /\ answer.strip = s /\ output[s] = NoContent
        /\ \A i \in DOMAIN output'[s] : output'[s][i] = Byte(i)
<1>1. ASSUME IInv, [RecvNext]_recv_vars, NEW s \in Strips PROVE Good(s)
  <2>1. CASE TakeStrip
    <3>1. stage = "body" /\ seq # -1 /\ seq \notin retrieved /\ seq \in Strips
      BY <2>1, <1>1 DEF TakeStrip, IInv, RecvTypeOK
    <3>2. answer.strip = seq /\ output[seq] = NoContent
      BY <3>1, <1>1 DEF IInv, SeqInv, OldSeq, FileInv
    <3>3. start \in Nat /\ size \in Nat /\ start <= size
          /\ output \in [Strips -> Seq(Bytes) \cup {NoContent}]
      BY <3>1, <1>1 DEF IInv, RecvTypeOK, SliceInv, SliceIsAnswer
    <3>4. CASE output' = output
      BY <3>4
    <3>5. ASSUME NEW end \in start .. size,
                 output' = [output EXCEPT ![seq] = SubSeq(mem, start + 1, end)]
          PROVE  Good(s)
      <4>1. \A i \in DOMAIN SubSeq(mem, start + 1, end) : SubSeq(mem, start + 1, end)[i] = Byte(i)
        BY <1>1, <3>1, SlicePrefix
      <4>2. output'[seq] = SubSeq(mem, start + 1, end) /\ (s # seq => output'[s] = output[s])
        BY <3>1, <3>3, <3>5
      <4> QED
        BY <4>1, <4>2, <3>2
    <3>6. output' = output
          \/ \E end \in start .. size : output' = [output EXCEPT ![seq] = SubSeq(mem, start + 1, end)]
      BY <2>1 DEF TakeStrip
    <3> QED
      BY <3>4, <3>5, <3>6
  <2>2. CASE ~TakeStrip
    <3>1. output' = output
      BY <1>1, <2>2 DEF RecvNext, recv_vars, InitFailed, Perform, Headers, WriteCallback, PerformFails,
                  DropStrip, IndexMinusOne, TakenElsewhere, Return
    <3> QED
      BY <3>1
  <2> QED
    BY <2>1, <2>2
<1>2. IInv /\ [RecvNext]_recv_vars => [\A s \in Strips : Good(s)]_recv_vars
  BY <1>1
<1>3. [\A s \in Strips : Good(s)]_recv_vars
        <=> [\A s \in Strips : output'[s] # output[s] =>
               /\ answer.strip = s /\ output[s] = NoContent
               /\ \A i \in DOMAIN output'[s] : output'[s][i] = Byte(i)]_recv_vars
  OBVIOUS
<1> QED
  BY <1>2, <1>3, Invariant, PTL DEF RecvSpec, FileFromItsAnswer

-----------------------------------------------------------------------------
(* The bytes of the ring.                                                   *)

Items == Nat \cup {NoNode}

(* Products are monotonic. *)
LEMMA TimesMonotonic ==
  ASSUME NEW a \in Nat, NEW b \in Nat, NEW c \in Nat, a <= b
  PROVE  a * c <= b * c /\ a * c \in Nat /\ b * c \in Nat
<1>1. PICK d \in Nat : b = a + d
  <2>1. b - a \in Nat /\ b = a + (b - a)
    OBVIOUS
  <2> QED
    BY <2>1
<1>2. b * c = a * c + d * c
  BY <1>1
<1>3. a * c \in Nat /\ d * c \in Nat
  BY <1>1
<1> QED
  BY <1>2, <1>3

(* Rounding up to pages does not lose anything. *)
LEMMA SegmentHolds ==
  ASSUME img_size \in Nat
  PROVE  Segment \in Nat /\ MaxSize * SlotSize <= Segment /\ SlotSize \in Nat \ {0}
<1> DEFINE n == sizeof_Buffer
           q == (n + PAGE - 1) \div PAGE
<1>1. SlotSize \in Nat \ {0} /\ MaxSize \in Nat /\ PAGE \in Nat \ {0} /\ STRUCT \in Nat
  BY LayoutAssumption, MaxSizeAssumption DEF SlotSize, sizeof_shm_recv_buf
<1>2. n = STRUCT + MaxSize * SlotSize /\ MaxSize * SlotSize \in Nat /\ n \in Nat
  <2>1. MaxSize * SlotSize \in Nat
    BY <1>1, TimesMonotonic
  <2> QED
    BY <1>1, <2>1 DEF sizeof_Buffer
<1> HIDE DEF n
<1>3. q \in Nat /\ n + PAGE - 1 < (q + 1) * PAGE
  <2>1. n + PAGE - 1 \in Nat
    BY <1>1, <1>2
  <2>2. \A x \in Nat, p \in Nat \ {0} : x \div p \in Nat /\ x < (x \div p + 1) * p
    OBVIOUS
  <2> QED
    BY <2>1, <2>2, <1>1
<1> HIDE DEF q
<1>4. (q + 1) * PAGE = q * PAGE + PAGE /\ q * PAGE \in Nat
  BY <1>1, <1>3
<1>5. n <= q * PAGE
  BY <1>1, <1>2, <1>3, <1>4
<1>6. Segment = q * PAGE - STRUCT
  BY DEF Segment, q, n
<1> QED
  BY <1>1, <1>2, <1>4, <1>5, <1>6

(* Each slot is in the segment. *)
LEMMA SlotInside ==
  ASSUME img_size \in Nat, NEW s \in Slot
  PROVE  /\ SlotAddress(s) \in Nat
         /\ SlotAddress(s) + SlotSize <= Segment
<1>1. s \in Nat /\ s + 1 \in Nat /\ MaxSize \in Nat /\ s + 1 <= MaxSize
  BY MaxSizeAssumption DEF Slot
<1>2. SlotSize \in Nat /\ Segment \in Nat /\ MaxSize * SlotSize <= Segment
  BY SegmentHolds
<1>3. (s + 1) * SlotSize <= MaxSize * SlotSize /\ s * SlotSize \in Nat /\ MaxSize * SlotSize \in Nat
  BY <1>1, <1>2, TimesMonotonic
<1>4. (s + 1) * SlotSize = s * SlotSize + SlotSize
  BY <1>1, <1>2
<1> QED
  BY <1>2, <1>3, <1>4 DEF SlotAddress

(* No cell belongs to two slots. *)
LEMMA SlotsApart ==
  ASSUME img_size \in Nat, NEW s \in Slot, NEW t \in Slot, NEW o \in Copied, NEW p \in Copied,
         SlotAddress(s) + o = SlotAddress(t) + p
  PROVE  s = t /\ o = p
<1>1. /\ s \in Nat /\ t \in Nat /\ SlotSize \in Nat
      /\ o \in 1 .. SlotSize - 1 /\ p \in 1 .. SlotSize - 1
      /\ SlotAddress(s) \in Nat /\ SlotAddress(t) \in Nat
  BY SegmentHolds, SlotInside, MaxSizeAssumption DEF Slot, Copied
<1>2. ASSUME NEW u \in Nat, NEW v \in Nat, u < v
      PROVE  SlotAddress(u) + SlotSize <= SlotAddress(v)
  <2>1. u + 1 \in Nat /\ u + 1 <= v
    BY <1>2
  <2>2. (u + 1) * SlotSize <= v * SlotSize
    BY <2>1, <1>1, TimesMonotonic
  <2>3. (u + 1) * SlotSize = u * SlotSize + SlotSize
    BY <1>1
  <2> QED
    BY <2>2, <2>3 DEF SlotAddress
<1>3. ~(s < t)
  <2>1. s < t => SlotAddress(s) + SlotSize <= SlotAddress(t)
    BY <1>1, <1>2
  <2> QED
    BY <2>1, <1>1
<1>4. ~(t < s)
  <2>1. t < s => SlotAddress(t) + SlotSize <= SlotAddress(s)
    BY <1>1, <1>2
  <2> QED
    BY <2>1, <1>1
<1>5. s = t
  BY <1>1, <1>3, <1>4
<1> QED
  BY <1>1, <1>5

-----------------------------------------------------------------------------
(* The struct is a queue of nodes, and the segment has its length. *)
LayoutTyped ==
  /\ img_size \in Nat /\ nodes \in Nat /\ next_slot \in 0 .. MaxSize
  /\ ring \in BufferOf(Items) /\ RingInv(ring) /\ Contents(ring) \in Seq(Nat)
  /\ DOMAIN shm = 0 .. Segment - 1

(* Nothing is added before all headers are initialised. *)
InitFirst == next_slot < MaxSize => \A s \in Slot : ring.queue[s] = NoNode

(* A slot that was used once holds the node it was used for last. *)
CellsInv ==
  \A s \in Slot : ring.queue[s] \in Nat =>
    \A o \in Copied : shm[SlotAddress(s) + o] = <<ring.queue[s], o>>

OutsideInv == outside => (MaxSize - 1) * HEADER > img_size

LayoutInv == LayoutTyped /\ InitFirst /\ CellsInv /\ TakesWhatWasAdded /\ OutsideInv

(* The elements of the ring are nodes, in slots. *)
LEMMA Occupied ==
  ASSUME LayoutTyped, NEW i \in 1 .. ring.size
  PROVE  /\ SlotOf(ring, i) \in Slot
         /\ ring.queue[SlotOf(ring, i)] \in Nat
         /\ Contents(ring)[i] = ring.queue[SlotOf(ring, i)]
<1>1. ring \in BufferOf(Items) /\ RingInv(ring) /\ Contents(ring) \in Seq(Nat)
  BY DEF LayoutTyped
<1>2. /\ Len(Contents(ring)) = ring.size
      /\ Contents(ring)[i] = ring.queue[SlotOf(ring, i)]
      /\ SlotOf(ring, i) \in Slot
  BY <1>1, ContentsTyped, SlotTyped
<1>3. Contents(ring)[i] \in Nat
  BY <1>1, <1>2
<1> QED
  BY <1>2, <1>3

LEMMA LayoutInit == RingInit => LayoutInv
<1> SUFFICES ASSUME RingInit PROVE LayoutInv
  OBVIOUS
<1>1. NoNode \in Items /\ img_size \in Nat /\ MaxSize \in Nat
  BY LayoutAssumption, MaxSizeAssumption DEF RingInit, Items
<1>2. /\ ring \in BufferOf(Items) /\ RingInv(ring) /\ Contents(ring) = <<>>
      /\ \A s \in Slot : ring.queue[s] = NoNode
  BY <1>1, InitRing DEF RingInit, Buffer_init
<1>3. LayoutTyped
  BY <1>1, <1>2 DEF RingInit, LayoutTyped
<1>4. InitFirst /\ CellsInv
  BY <1>2, LayoutAssumption DEF InitFirst, CellsInv
<1> QED
  BY <1>3, <1>4 DEF RingInit, LayoutInv, TakesWhatWasAdded, OutsideInv

(* A header that is not in the segment tells how large the data are. *)
LEMMA InitKeeps ==
  ASSUME LayoutInv, InitSlot
  PROVE  LayoutInv'
<1> DEFINE cells == {InitAddress(next_slot) + o : o \in 0 .. HEADER - 1}
<1>1. /\ img_size' = img_size /\ ring' = ring /\ nodes' = nodes
      /\ taken' = taken /\ expected' = expected
      /\ next_slot \in Nat /\ next_slot < MaxSize /\ next_slot' = next_slot + 1
      /\ img_size \in Nat /\ MaxSize \in Nat /\ HEADER \in Nat \ {0}
      /\ DOMAIN shm = 0 .. Segment - 1 /\ DOMAIN shm' = DOMAIN shm
  BY LayoutAssumption, MaxSizeAssumption DEF LayoutInv, LayoutTyped, InitSlot, WriteCells
<1>2. \A s \in Slot : ring.queue[s] = NoNode
  BY <1>1 DEF LayoutInv, InitFirst
<1>3. Segment' = Segment /\ Copied' = Copied /\ SlotSize' = SlotSize
  BY <1>1 DEF Segment, sizeof_Buffer, Copied, SlotSize
<1>4. LayoutTyped'
  BY <1>1, <1>3 DEF LayoutInv, LayoutTyped
<1>5. InitFirst' /\ CellsInv'
  BY <1>1, <1>2, LayoutAssumption DEF InitFirst, CellsInv
<1>6. TakesWhatWasAdded'
  BY <1>1, <1>3 DEF LayoutInv, TakesWhatWasAdded
<1>7. OutsideInv'
  <2>1. CASE cells \subseteq DOMAIN shm
    BY <2>1, <1>1 DEF LayoutInv, OutsideInv, InitSlot, WriteCells
  <2>2. CASE ~(cells \subseteq DOMAIN shm)
    <3>1. PICK o \in 0 .. HEADER - 1 : InitAddress(next_slot) + o \notin 0 .. Segment - 1
      BY <2>2, <1>1
    <3>2. /\ Segment \in Nat /\ MaxSize * SlotSize <= Segment /\ SlotSize \in Nat
          /\ SlotSize = HEADER + img_size
      BY <1>1, SegmentHolds DEF SlotSize, sizeof_shm_recv_buf
    <3> DEFINE m == MaxSize - 1
               step == HEADER + SlotSize
    <3>3. m \in Nat /\ step \in Nat /\ next_slot <= m
      BY <1>1, <3>2
    <3>4. next_slot * step <= m * step /\ next_slot * step \in Nat /\ m * step \in Nat
      BY <3>3, <1>1, TimesMonotonic
    <3>5. next_slot * step + o > Segment - 1 /\ o \in Nat /\ o <= HEADER - 1
      BY <3>1, <3>2, <3>4, <1>1 DEF InitAddress, sizeof_shm_recv_buf
    <3>6. m * step = m * HEADER + m * SlotSize /\ m * HEADER \in Nat /\ m * SlotSize \in Nat
      BY <3>2, <3>3, <1>1, TimesMonotonic
    <3>7. MaxSize * SlotSize = m * SlotSize + SlotSize
      BY <3>2, <1>1
    <3> HIDE DEF m, step
    <3>8. m * HEADER > img_size
      BY <3>2, <3>4, <3>5, <3>6, <3>7, <1>1
    <3> QED
      BY <3>8, <1>1 DEF OutsideInv, m
  <2> QED
    BY <2>1, <2>2
<1> QED
  BY <1>4, <1>5, <1>6, <1>7 DEF LayoutInv

(* The slot that Buffer_add writes. *)
LEMMA AddSlotTyped ==
  ASSUME NEW Item, NEW b \in BufferOf(Item), RingInv(b), ~IsFull(b)
  PROVE  /\ AddSlot(b) \in Slot
         /\ \A x : Buffer_add(b, x).queue = [b.queue EXCEPT ![AddSlot(b)] = x]
<1>1. /\ b.size \in 0 .. MaxSize /\ b.size < MaxSize
      /\ b.front \in -1 .. MaxSize - 1 /\ b.rear \in -1 .. MaxSize - 1
      /\ MaxSize \in Nat \ {0}
  BY Fields, MaxSizeAssumption DEF IsFull
<1>2. AddSlot(b) \in Slot
  BY <1>1 DEF RingInv, SlotOf, AddSlot, Slot
<1> QED
  BY <1>2 DEF Buffer_add

(* Buffer_add writes one slot, which is in the segment, and no other. *)
LEMMA AddKeeps ==
  ASSUME LayoutInv, AddNode
  PROVE  LayoutInv'
<1> DEFINE t == AddSlot(ring)
           n == nodes + 1
           base == SlotAddress(t)
           cells == {base + o : o \in Copied}
<1>1. /\ img_size' = img_size /\ next_slot' = next_slot /\ next_slot = MaxSize
      /\ taken' = taken /\ expected' = expected
      /\ nodes' = n /\ n \in Nat /\ n \in Items /\ ~IsFull(ring)
      /\ ring' = Buffer_add(ring, n)
      /\ img_size \in Nat /\ MaxSize \in Nat
      /\ ring \in BufferOf(Items) /\ RingInv(ring) /\ Contents(ring) \in Seq(Nat)
      /\ DOMAIN shm = 0 .. Segment - 1
  <2>1. /\ img_size' = img_size /\ next_slot' = next_slot /\ next_slot = MaxSize
        /\ taken' = taken /\ expected' = expected
        /\ nodes' = n /\ ~IsFull(ring) /\ ring' = Buffer_add(ring, n)
    BY DEF AddNode
  <2>2. /\ img_size \in Nat /\ nodes \in Nat
        /\ ring \in BufferOf(Items) /\ RingInv(ring) /\ Contents(ring) \in Seq(Nat)
        /\ DOMAIN shm = 0 .. Segment - 1
    BY DEF LayoutInv, LayoutTyped
  <2>3. n \in Nat /\ n \in Items
    BY <2>2 DEF Items
  <2> QED
    BY <2>1, <2>2, <2>3, MaxSizeAssumption
<1>2. Segment' = Segment /\ Copied' = Copied /\ SlotSize' = SlotSize
      /\ \A s \in Slot : SlotAddress(s)' = SlotAddress(s)
  BY <1>1 DEF Segment, sizeof_Buffer, Copied, SlotSize, SlotAddress
<1>3. /\ ring' \in BufferOf(Items) /\ RingInv(ring')
      /\ Contents(ring') = Append(Contents(ring), n)
  BY <1>1, AddAppends
<1>4. t \in Slot /\ ring'.queue = [ring.queue EXCEPT ![t] = n] /\ ring.queue \in [Slot -> Items]
  BY <1>1, AddSlotTyped, Fields
<1>5. /\ shm' = [a \in DOMAIN shm |-> IF a \in cells THEN <<n, a - base>> ELSE shm[a]]
      /\ IF cells \subseteq DOMAIN shm THEN UNCHANGED <<outside, using>>
         ELSE outside' = TRUE /\ using' \in BOOLEAN
  BY DEF AddNode, WriteCells
<1>6. \A s \in Slot, o \in Copied : SlotAddress(s) + o \in 0 .. Segment - 1
  <2> SUFFICES ASSUME NEW s \in Slot, NEW o \in Copied PROVE SlotAddress(s) + o \in 0 .. Segment - 1
    OBVIOUS
  <2>1. SlotAddress(s) \in Nat /\ SlotAddress(s) + SlotSize <= Segment
    BY <1>1, SlotInside
  <2>2. SlotSize \in Nat /\ Segment \in Nat /\ o \in 1 .. SlotSize - 1
    BY <1>1, SegmentHolds DEF Copied
  <2> QED
    BY <2>1, <2>2
<1>7. cells \subseteq DOMAIN shm
  BY <1>1, <1>4, <1>6
<1>8. LayoutTyped'
  <2>1. Append(Contents(ring), n) \in Seq(Nat)
    BY <1>1
  <2>2. DOMAIN shm' = DOMAIN shm
    BY <1>5
  <2>3. next_slot' \in 0 .. MaxSize
    BY <1>1
  <2> QED
    BY <1>1, <1>2, <1>3, <2>1, <2>2, <2>3 DEF LayoutTyped
<1>9. CellsInv'
  <2> SUFFICES ASSUME NEW s \in Slot, ring'.queue[s] \in Nat, NEW o \in Copied
               PROVE  shm'[SlotAddress(s) + o] = <<ring'.queue[s], o>>
    BY <1>2 DEF CellsInv
  <2>1. SlotAddress(s) + o \in DOMAIN shm
    BY <1>1, <1>6
  <2>2. CASE s = t
    <3>1. SlotAddress(s) + o \in cells /\ ring'.queue[s] = n
      BY <2>2, <1>4
    <3>2. shm'[SlotAddress(s) + o] = <<n, (SlotAddress(s) + o) - base>>
      BY <3>1, <2>1, <1>5
    <3>3. base \in Nat /\ o \in Int
      BY <1>1, <1>4, SlotInside, SegmentHolds DEF Copied
    <3>4. (SlotAddress(s) + o) - base = o
      BY <2>2, <3>3
    <3> QED
      BY <3>1, <3>2, <3>4
  <2>3. CASE s # t
    <3>1. SlotAddress(s) + o \notin cells
      <4>1. SUFFICES ASSUME NEW p \in Copied, SlotAddress(s) + o = SlotAddress(t) + p PROVE FALSE
        OBVIOUS
      <4> QED
        BY <4>1, <1>1, <1>4, <2>3, SlotsApart
    <3>2. shm'[SlotAddress(s) + o] = shm[SlotAddress(s) + o]
      BY <3>1, <2>1, <1>5
    <3>3. ring'.queue[s] = ring.queue[s]
      BY <1>4, <2>3
    <3> QED
      BY <3>2, <3>3 DEF LayoutInv, CellsInv
  <2> QED
    BY <2>2, <2>3
<1>10. TakesWhatWasAdded' /\ OutsideInv' /\ InitFirst'
  BY <1>1, <1>2, <1>5, <1>7 DEF LayoutInv, TakesWhatWasAdded, OutsideInv, InitFirst
<1> QED
  BY <1>8, <1>9, <1>10 DEF LayoutInv

(* Buffer_pop reads the slot of the oldest node. *)
LEMMA PopKeeps ==
  ASSUME LayoutInv, PopNode
  PROVE  LayoutInv'
<1>1. /\ img_size' = img_size /\ next_slot' = next_slot /\ next_slot = MaxSize
      /\ nodes' = nodes /\ shm' = shm /\ outside' = outside
      /\ ring' = Buffer_pop(ring) /\ ~IsEmpty(ring)
      /\ expected' = Popped(ring)
      /\ taken' = [o \in Copied |-> shm[SlotAddress(ring.front) + o]]
      /\ MaxSize \in Nat
      /\ ring \in BufferOf(Items) /\ RingInv(ring) /\ Contents(ring) \in Seq(Nat)
  BY MaxSizeAssumption DEF LayoutInv, LayoutTyped, PopNode
<1>2. Segment' = Segment /\ Copied' = Copied /\ SlotSize' = SlotSize
      /\ \A s \in Slot : SlotAddress(s)' = SlotAddress(s)
  BY <1>1 DEF Segment, sizeof_Buffer, Copied, SlotSize, SlotAddress
<1>3. /\ ring' \in BufferOf(Items) /\ RingInv(ring')
      /\ Contents(ring) # <<>> /\ Popped(ring) = Head(Contents(ring))
      /\ Contents(ring') = Tail(Contents(ring))
  BY <1>1, PopHeads
<1>4. ring'.queue = ring.queue
  <2>1. ring = [size |-> ring.size, front |-> ring.front, rear |-> ring.rear, queue |-> ring.queue]
    BY <1>1 DEF BufferOf
  <2> QED
    BY <1>1, <2>1 DEF Buffer_pop
<1>5. Popped(ring) \in Nat /\ Contents(ring') \in Seq(Nat)
  BY <1>1, <1>3, HeadTailProperties
<1>6. ring.front \in Slot /\ ring.queue[ring.front] = Popped(ring)
  BY <1>1, Fields, MaxSizeAssumption DEF IsEmpty, RingInv, Slot, Popped
<1>7. \A o \in Copied : shm[SlotAddress(ring.front) + o] = <<Popped(ring), o>>
  BY <1>5, <1>6 DEF LayoutInv, CellsInv
<1>8. TakesWhatWasAdded'
  BY <1>1, <1>2, <1>7 DEF TakesWhatWasAdded
<1>9. LayoutTyped'
  BY <1>1, <1>2, <1>3, <1>5 DEF LayoutInv, LayoutTyped
<1>10. CellsInv' /\ InitFirst' /\ OutsideInv'
  BY <1>1, <1>2, <1>4 DEF LayoutInv, CellsInv, InitFirst, OutsideInv
<1> QED
  BY <1>8, <1>9, <1>10 DEF LayoutInv

LEMMA LayoutInvariant == RingSpec => []LayoutInv
<1>1. LayoutInv /\ [RingNext]_ring_vars => LayoutInv'
  <2> SUFFICES ASSUME LayoutInv, [RingNext]_ring_vars PROVE LayoutInv'
    OBVIOUS
  <2>1. CASE UNCHANGED ring_vars
    <3>1. /\ img_size' = img_size /\ next_slot' = next_slot /\ nodes' = nodes /\ shm' = shm
          /\ outside' = outside /\ ring' = ring /\ taken' = taken /\ expected' = expected
      BY <2>1 DEF ring_vars
    <3>2. Segment' = Segment /\ Copied' = Copied /\ \A s \in Slot : SlotAddress(s)' = SlotAddress(s)
      BY <3>1 DEF Segment, sizeof_Buffer, Copied, SlotSize, SlotAddress
    <3> QED
      BY <3>1, <3>2 DEF LayoutInv, LayoutTyped, CellsInv, InitFirst, TakesWhatWasAdded, OutsideInv
  <2> QED
    BY <2>1, InitKeeps, AddKeeps, PopKeeps DEF RingNext
<1> QED
  BY <1>1, LayoutInit, PTL DEF RingSpec

-----------------------------------------------------------------------------
(* Buffer's ring is in the segment, byte for byte, for every number of      *)
(* slots, every size of the data and wherever the ring has wrapped.         *)
THEOREM BytesImplementSlots == RingSpec => []NodesKept
<1>1. ASSUME LayoutInv PROVE SlotsHoldNodes
  BY <1>1, Occupied DEF LayoutInv, CellsInv, SlotsHoldNodes
<1>2. LayoutInv => TakesWhatWasAdded
  BY DEF LayoutInv
<1> QED
  BY <1>1, <1>2, LayoutInvariant, PTL DEF NodesKept

(* Only the initialisation can leave the segment, and only when the headers *)
(* of all slots but one are larger than the data of one.                    *)
THEOREM StaysInSegment == RingSpec => []OutsideOnlyByInit
<1>1. ASSUME LayoutInv PROVE OutsideOnlyByInit
  <2>1. ASSUME ring.size > 0 PROVE SlotAddress(ring.rear) + SlotSize <= Segment
    <3>1. ring.rear \in Slot
      BY <1>1, <2>1, Fields, MaxSizeAssumption DEF LayoutInv, LayoutTyped, RingInv, Slot
    <3> QED
      BY <1>1, <3>1, SlotInside DEF LayoutInv, LayoutTyped
  <2> QED
    BY <1>1, <2>1 DEF LayoutInv, OutsideInv, OutsideOnlyByInit
<1> QED
  BY <1>1, LayoutInvariant, PTL
=============================================================================
