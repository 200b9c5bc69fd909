------------------------------ MODULE FindPng1 ------------------------------
(***************************************************************************)
(* Lab 1, findpng.c: walk a directory tree and print the path of every     *)
(* regular file whose first eight bytes are the PNG signature.             *)
(*                                                                         *)
(* Paths are model values and fit the buffers of 256 bytes.  png_count is  *)
(* left out: ++ moves the pointer, so main's counter stays 0 and its       *)
(* message is never printed.                                               *)
(***************************************************************************)
EXTENDS Integers, Sequences, FiniteSets, SequencesExt

CONSTANTS
  Root,                   (* the directory named on the command line        *)
  Listing,                (* [Dirs -> Seq(entry)], in the order of readdir  *)
  MaxOpen,                (* descriptors the process may have open          *)
  FileKinds               (* the kinds of entry considered                  *)

Dirs  == DOMAIN Listing
Dots  == {".", ".."}
Files == (UNION {Range(Listing[d]) : d \in Dirs}) \ (Dirs \cup Dots)

(* A short file has fewer than eight bytes; a special one is neither a      *)
(* directory nor a regular file.                                            *)
ASSUME KindAssumption == FileKinds \subseteq {"png", "other", "short", "unreadable", "special"}

(* The directories are a tree: d_type is that of the entry itself, so that  *)
(* links are not followed.                                                  *)
ASSUME TreeAssumption ==
  /\ MaxOpen \in Nat
  /\ IsFiniteSet(Dirs) /\ Root \in Dirs /\ Dirs \cap Dots = {}
  /\ \A d \in Dirs : Listing[d] \in Seq(Range(Listing[d]))
  /\ \E depth \in [Dirs -> 1 .. Cardinality(Dirs)] :
       /\ depth[Root] = 1
       /\ \A d \in Dirs : \A e \in Range(Listing[d]) \cap Dirs : depth[e] = depth[d] + 1
  /\ \A e \in Dirs \ {Root} : \E d \in Dirs : e \in Range(Listing[d])
  /\ \A d, e \in Dirs : \A i \in DOMAIN Listing[d], j \in DOMAIN Listing[e] :
       Listing[d][i] = Listing[e][j] /\ Listing[d][i] \in Dirs => d = e /\ i = j

VARIABLES
  kind,                   (* what each entry that is no directory is        *)
  locked,                 (* the directories opendir refuses                *)
  walk,                   (* "start", "walking", "done", "exited", "crashed"*)
  frames,                 (* the calls of check_directory, with p_dir's     *)
                          (* directory and how many entries it has returned *)
  descriptors,            (* how many are open                              *)
  printed,                (* the files printed, in order                    *)
  cut                     (* history: entries read of a directory that was  *)
                          (* not read to its end, -1 if it was not opened   *)

walk_vars == <<kind, locked, walk, frames, descriptors, printed, cut>>

WalkInit ==
  /\ kind \in [Files -> FileKinds]
  /\ locked \in SUBSET Dirs
  /\ walk = "start"
  /\ frames = <<>>
  /\ descriptors = 0
  /\ printed = <<>>
  /\ cut = <<>>

Here  == Last(frames)
AtEnd == Here.read = Len(Listing[Here.dir])
Entry == Listing[Here.dir][Here.read + 1]

(* readdir of the innermost call has returned Entry. *)
Advanced == [frames EXCEPT ![Len(frames)].read = @ + 1]

(* The call check_directory(d): when opendir fails it returns at once. *)
CheckDirectory(d, callers) ==
  IF d \in locked \/ descriptors = MaxOpen
    THEN /\ frames' = callers
         /\ cut' = [e \in DOMAIN cut \cup {d} |-> IF e = d THEN -1 ELSE cut[e]]
         /\ UNCHANGED descriptors
    ELSE /\ frames' = Append(callers, [dir |-> d, read |-> 0])
         /\ descriptors' = descriptors + 1
         /\ UNCHANGED cut

StartWalk ==
  /\ walk = "start" /\ walk' = "walking"
  /\ CheckDirectory(Root, <<>>)
  /\ UNCHANGED <<kind, locked, printed>>

Walking == walk = "walking" /\ frames # <<>>

EnterDirectory ==
  /\ Walking /\ ~AtEnd /\ Entry \in Dirs
  /\ CheckDirectory(Entry, Advanced)
  /\ UNCHANGED <<kind, locked, walk, printed>>

(* Faulty: ".." is a directory like every other. *)
SkipEntry_DotDot ==
  /\ Walking /\ ~AtEnd
  /\ \/ /\ Entry = ".." /\ Len(frames) > 1
        /\ CheckDirectory(frames[Len(frames) - 1].dir, Advanced)
     \/ /\ \/ Entry = "."
           \/ Entry \in Files /\ kind[Entry] = "special"
        /\ frames' = Advanced
        /\ UNCHANGED <<descriptors, cut>>
  /\ UNCHANGED <<kind, locked, walk, printed>>

(* "." and "..", and what is neither a directory nor a regular file. *)
SkipEntry ==
  /\ Walking /\ ~AtEnd
  /\ Entry \in Dots \/ (Entry \in Files /\ kind[Entry] = "special")
  /\ frames' = Advanced
  /\ UNCHANGED <<kind, locked, walk, descriptors, printed, cut>>

(* A regular file is opened, its first bytes are compared with the          *)
(* signature, and it is closed.  Of a short file fread fills only a part of *)
(* the buffer, and the rest is whatever the stack holds: after a PNG file   *)
(* that may be the rest of the signature.                                   *)
CheckFile ==
  /\ Walking /\ ~AtEnd /\ Entry \in Files /\ kind[Entry] # "special"
  /\ kind[Entry] # "unreadable" /\ descriptors < MaxOpen
  /\ \/ kind[Entry] \in {"png", "short"} /\ printed' = Append(printed, Entry)
     \/ kind[Entry] # "png" /\ UNCHANGED printed
  /\ frames' = Advanced
  /\ UNCHANGED <<kind, locked, walk, descriptors, cut>>

(* fopen fails, and fread is given NULL. *)
CheckFileCrashes ==
  /\ Walking /\ ~AtEnd /\ Entry \in Files /\ kind[Entry] # "special"
  /\ kind[Entry] = "unreadable" \/ descriptors = MaxOpen
  /\ walk' = "crashed"
  /\ UNCHANGED <<kind, locked, frames, descriptors, printed, cut>>

(* The call leaves Here after the entries it has read. *)
CutHere ==
  IF AtEnd THEN cut
  ELSE [d \in DOMAIN cut \cup {Here.dir} |-> IF d = Here.dir THEN Here.read ELSE cut[d]]

(* readdir returns NULL, at the end of the directory or because it failed,  *)
(* which check_directory does not tell apart; the call closes and returns.  *)
CloseDirectory ==
  /\ Walking
  /\ cut' = CutHere
  /\ frames' = Front(frames)
  /\ descriptors' = descriptors - 1
  /\ UNCHANGED <<kind, locked, walk, printed>>

(* closedir reports an error: exit(3) from whatever depth. *)
CloseFails ==
  /\ Walking /\ AtEnd
  /\ walk' = "exited"
  /\ UNCHANGED <<kind, locked, frames, descriptors, printed, cut>>

(* The first call returns to main. *)
EndWalk ==
  /\ walk = "walking" /\ frames = <<>>
  /\ walk' = "done"
  /\ UNCHANGED <<kind, locked, frames, descriptors, printed, cut>>

WalkNext ==
  \/ StartWalk \/ EnterDirectory
  \/ SkipEntry \/ CheckFile \/ CheckFileCrashes
  \/ CloseDirectory \/ CloseFails
  \/ EndWalk

WalkSpec == WalkInit /\ [][WalkNext]_walk_vars

-----------------------------------------------------------------------------
(* What was read of directory d. *)
EntriesRead(d) == IF d \in DOMAIN cut THEN SubSeq(Listing[d], 1, cut[d]) ELSE Listing[d]

Signed(f)  == IF kind[f] = "png" THEN <<f>> ELSE <<>>
Certain(f) == IF kind[f] # "short" THEN <<f>> ELSE <<>>

(* The PNG files below each directory, in the order of a depth-first walk.  *)
PngsBelow[d \in Dirs] ==
  LET es    == EntriesRead(d)
      of(e) == IF e \in Dirs THEN PngsBelow[e] ELSE IF e \in Dots THEN <<>> ELSE Signed(e)
  IN  FlattenSeq([i \in 1 .. Len(es) |-> of(es[i])])

(* The length of the path from the root to directory d. *)
DepthOf[d \in Dirs] ==
  IF d = Root THEN 1
  ELSE 1 + DepthOf[CHOOSE p \in Dirs : d \in Range(Listing[p])]

(* A walk that ends prints the PNG files of what it read, all of them, in   *)
(* the order of the tree and each once; only short files are left to what   *)
(* was on the stack.  And it reads all it may: whatever it has visited      *)
(* before, a directory that may be opened is skipped, or a file that may be *)
(* read ends the program, only below MaxOpen levels.                        *)
PrintsThePngs ==
  /\ walk = "done" =>
       FlattenSeq([i \in 1 .. Len(printed) |-> Certain(printed[i])]) = PngsBelow[Root]
  /\ \A d \in DOMAIN cut : cut[d] = -1 /\ d \notin locked => DepthOf[d] > MaxOpen
  /\ walk = "crashed" /\ kind[Entry] # "unreadable" => DepthOf[Here.dir] = MaxOpen
=============================================================================
