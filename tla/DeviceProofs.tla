----------------------------- MODULE DeviceProofs -----------------------------
(***************************************************************************)
(* Proofs about what a device is opened with, DeviceOpen and StreamPool,    *)
(* which share no variable.                                                *)
(*                                                                         *)
(* DeviceOpen, for any processes, devices, requests and bounds on the       *)
(* builds.  The inductive invariant says how many builds a process has      *)
(* loaded at each of its places, what lies under its temporary name when it *)
(* is about to rename, and that a cache entry holds a whole build of its    *)
(* own key.  Keys determine builds, so that a cached build is the one the   *)
(* process would have compiled.                                            *)
(*                                                                         *)
(* StreamPool, for any number of callers, pairs and failures: a pair is in  *)
(* one place and nothing of an old session is queued on one in the pool, no *)
(* caller sleeps while a pair is there for it, and a session frees its      *)
(* buffers, and finds its job, in order.                                    *)
(***************************************************************************)
EXTENDS DeviceOpen, StreamPool, FoldLemmas

-----------------------------------------------------------------------------
(* Opening a device: the cache of builds and the capacities. *)

Places == {"declare", "resolve", "refused", "look", "create", "write", "rename",
           "configure", "open"}

\* Capacity of an open that gets past resolve.
Nodes(p) == Wanted(KernelOf[p], Requested[p])

\* ... of its wide SA jobs, and its replica words.
WideNodes(p) == SaWideMaxNodes(KernelOf[p], Nodes(p), LimitsOf[p])
Words(p)     == OpenedReplicaWords(KernelOf[p], NodesFor(p, "Msa", Nodes(p)), LimitsOf[p])

Typed ==
    /\ pc \in [Process -> Places]
    /\ at \in [Process -> Nat]
    /\ DOMAIN loaded = Process
    /\ DOMAIN declared = Process
    /\ DOMAIN capacity = Process
    /\ DOMAIN tmp = TmpNames
    /\ DOMAIN final = Keys

\* Builds loaded, and the one a process is at.
LoadedSoFar(p) ==
    /\ at[p] \in 1..Len(Builds(p))
    /\ loaded[p] \in Seq(AllBuilds)
    /\ \A i \in 1..Len(loaded[p]) : loaded[p][i] = Builds(p)[i]
    /\ Len(loaded[p]) <= Len(Builds(p))
    /\ pc[p] \in {"declare", "resolve"} => at[p] = 1
    /\ pc[p] \in {"declare", "resolve", "look"} => Len(loaded[p]) = at[p] - 1
    /\ pc[p] \in {"create", "write", "rename"} => Len(loaded[p]) = at[p]
    /\ pc[p] \in {"configure", "open"} => Len(loaded[p]) = Len(Builds(p))

FilesWhole ==
    /\ \A p \in Process : pc[p] = "rename" => tmp[TmpName(p)] = Text(p, TRUE)
    /\ \A key \in Keys :
           final[key] # None =>
               /\ final[key].whole
               /\ final[key].build \in AllBuilds
               /\ CacheKey(final[key].build) = key

\* What a process declared, and what its device was resolved to.
Served(p) ==
    /\ pc[p] # "declare" =>
           \E inspected \in BOOLEAN :
               /\ inspected => KernelOf[p] = "Msa"
               /\ declared[p] = Identity(p, inspected)
    /\ pc[p] \notin {"declare", "resolve", "refused"} =>
           /\ Resolve(KernelOf[p], Requested[p], LimitsOf[p]) # None
           /\ \E words :
                  capacity[p] = [nodes |-> Nodes(p), words |-> words, wide |-> WideNodes(p)]
    /\ pc[p] = "open" => Words(p) # None /\ capacity[p].words = Words(p)

OpenInv ==
    /\ Typed
    /\ \A p \in Process : LoadedSoFar(p)
    /\ FilesWhole
    /\ \A p \in Process : Served(p)

-----------------------------------------------------------------------------
(* The builds and their keys. *)

\* A build's file name determines it: nothing that is compiled in is left out
\* of the key (cache_key).
LEMMA KeyOfBuild ==
    ASSUME NEW p, NEW name, NEW nodes, NEW r, NEW other, NEW more,
           CacheKey(Build(p, name, nodes)) = CacheKey(Build(r, other, more))
    PROVE  Build(p, name, nodes) = Build(r, other, more)
BY DEF CacheKey, Build

\* The builds of a process are a sequence, not empty.
LEMMA BuildsSeq ==
    ASSUME NEW p \in Process
    PROVE  /\ Builds(p) \in Seq(AllBuilds)
           /\ Len(Builds(p)) \in Nat \ {0}
           /\ \A k \in 1..Len(Builds(p)) :
                  /\ Builds(p)[k] \in AllBuilds
                  /\ CacheKey(Builds(p)[k]) \in Keys
<1> DEFINE n == Cached[p].last - Cached[p].first + 1
<1>1. n \in Nat \ {0}
  BY OpenAssumption
<1>2. Builds(p) = [k \in 1..n |-> Build(p, CompileOrder(p)[Cached[p].first + k - 1],
                                        Wanted(KernelOf[p], Requested[p]))]
  BY DEF Builds, BuildsOf
<1>3. DOMAIN Builds(p) = 1..n
  BY <1>2
<1>4. ASSUME NEW k \in 1..n
      PROVE  Builds(p)[k] \in AllBuilds /\ CacheKey(Builds(p)[k]) \in Keys
  <2>1. k \in DOMAIN Builds(p)
    BY <1>3
  <2>2. Builds(p)[k] \in {Builds(p)[i] : i \in DOMAIN Builds(p)}
    BY <2>1
  <2>3. CacheKey(Builds(p)[k]) \in {CacheKey(Builds(p)[i]) : i \in DOMAIN Builds(p)}
    BY <2>1
  <2> QED
    BY <2>2, <2>3 DEF AllBuilds, Keys
<1>5. Builds(p) \in [1..n -> AllBuilds]
  BY <1>2, <1>3, <1>4
<1>6. Builds(p) \in Seq(AllBuilds) /\ Len(Builds(p)) = n
  BY <1>1, <1>5
<1> QED
  BY <1>1, <1>4, <1>6

\* Two builds of one key are the same build.
LEMMA KeyDetermines ==
    ASSUME NEW a \in AllBuilds, NEW b \in AllBuilds, CacheKey(a) = CacheKey(b)
    PROVE  a = b
<1>1. \A c \in AllBuilds : \E p, name, nodes : c = Build(p, name, nodes)
  <2> SUFFICES ASSUME NEW p \in Process, NEW k \in DOMAIN Builds(p)
               PROVE  \E r, name, nodes : Builds(p)[k] = Build(r, name, nodes)
    BY DEF AllBuilds
  <2>1. k \in 1..(Cached[p].last - Cached[p].first + 1)
    BY DEF Builds, BuildsOf
  <2>2. Builds(p)[k] = Build(p, CompileOrder(p)[Cached[p].first + k - 1],
                             Wanted(KernelOf[p], Requested[p]))
    BY <2>1 DEF Builds, BuildsOf
  <2> QED
    BY <2>2
<1> QED
  BY <1>1, KeyOfBuild

\* A process that has not gone past its last build is at a build with a key.
LEMMA CurrentBuild ==
    ASSUME NEW p \in Process, at[p] \in 1..Len(Builds(p))
    PROVE  Current(p) \in AllBuilds /\ Key(p) \in Keys /\ TmpName(p) \in TmpNames
BY BuildsSeq DEF Current, Key, TmpName, TmpNames

-----------------------------------------------------------------------------
(* The inductive invariant. *)

\* It holds when no process has started.
LEMMA OpenInvInit == OpenInit => OpenInv
<1> SUFFICES ASSUME OpenInit PROVE OpenInv
  OBVIOUS
<1>1. Typed
  BY DEF OpenInit, Typed, Places
<1>2. ASSUME NEW p \in Process PROVE LoadedSoFar(p)
  <2>1. 1 \in 1..Len(Builds(p)) /\ Len(<<>>) = 0 /\ <<>> \in Seq(AllBuilds)
    BY BuildsSeq
  <2> QED
    BY <2>1 DEF OpenInit, LoadedSoFar
<1>3. FilesWhole
  BY DEF OpenInit, FilesWhole
<1>4. ASSUME NEW p \in Process PROVE Served(p)
  BY DEF OpenInit, Served
<1> QED
  BY <1>1, <1>2, <1>3, <1>4 DEF OpenInv

\* A process at the end of its builds or not moves on to a build of its own.
LEMMA NextBuildMoves ==
    ASSUME NEW p \in Process, Typed, at[p] \in 1..Len(Builds(p)), NextBuild(p)
    PROVE  /\ pc' \in [Process -> Places]
           /\ at' \in [Process -> Nat]
           /\ \A r \in Process \ {p} : pc'[r] = pc[r] /\ at'[r] = at[r]
           /\ at'[p] \in 1..Len(Builds(p))
           /\ \/ pc'[p] = "configure" /\ at'[p] = at[p] /\ at[p] = Len(Builds(p))
              \/ pc'[p] = "look" /\ at'[p] = at[p] + 1
<1>1. Len(Builds(p)) \in Nat
  BY BuildsSeq
<1>2. CASE at[p] = Len(Builds(p))
  BY <1>1, <1>2 DEF NextBuild, Goto, Typed, Places
<1>3. CASE at[p] # Len(Builds(p))
  BY <1>1, <1>3 DEF NextBuild, Goto, Typed, Places
<1> QED
  BY <1>2, <1>3

\* Every step keeps the types.
LEMMA TypedStep ==
    ASSUME OpenInv, NEW p \in Process, OpenStep(p)
    PROVE  Typed'
<1> USE DEF OpenInv
<1>0. at[p] \in 1..Len(Builds(p))
  BY DEF LoadedSoFar
<1>1. CASE Declare(p) \/ ResolveCapacity(p) \/ OpenFails(p) \/ Configure(p) \/ Restart(p)
  BY <1>1 DEF Declare, ResolveCapacity, OpenFails, Configure, Restart, Goto, Typed, Places,
              fileVars
<1>2. CASE Create(p) \/ Write(p)
  BY <1>2 DEF Create, Write, Goto, Typed, Places
<1>3. CASE Hit(p)
  BY <1>0, <1>3, NextBuildMoves DEF Hit, Typed, fileVars
<1>4. CASE Compile(p)
  <2>1. CASE Goto(p, "create") /\ UNCHANGED at
    BY <1>4, <2>1 DEF Compile, Goto, Typed, Places, fileVars
  <2>2. CASE NextBuild(p)
    BY <1>0, <1>4, <2>2, NextBuildMoves DEF Compile, Typed, fileVars
  <2> QED
    BY <1>4, <2>1, <2>2 DEF Compile
<1>5. CASE WriteFails(p)
  BY <1>0, <1>5, NextBuildMoves DEF WriteFails, Typed, fileVars
<1>6. CASE Rename(p)
  BY <1>0, <1>6, NextBuildMoves DEF Rename, Typed
<1>7. CASE RenameFails(p)
  BY <1>0, <1>7, NextBuildMoves DEF RenameFails, Typed
<1> QED
  BY <1>1, <1>2, <1>3, <1>4, <1>5, <1>6, <1>7 DEF OpenStep

\* What a process has loaded after its own step.  A hit loads a build of the
\* key it looked for, which is the build at hand.
LEMMA LoadedOwnStep ==
    ASSUME OpenInv, NEW p \in Process, OpenStep(p)
    PROVE  LoadedSoFar(p)'
<1> USE DEF OpenInv
<1>0. /\ Typed /\ LoadedSoFar(p) /\ FilesWhole
      /\ at[p] \in 1..Len(Builds(p))
      /\ Builds(p) \in Seq(AllBuilds) /\ Len(Builds(p)) \in Nat \ {0}
      /\ loaded[p] \in Seq(AllBuilds)
  BY BuildsSeq DEF LoadedSoFar
<1>b. Builds(p)' = Builds(p)
  BY DEF Builds
<1>1. CASE Declare(p) \/ ResolveCapacity(p) \/ OpenFails(p) \/ Configure(p)
           \/ Create(p) \/ Write(p)
  BY <1>0, <1>b, <1>1 DEF Declare, ResolveCapacity, OpenFails, Configure, Create, Write, Goto,
                    Typed, LoadedSoFar
<1>2. CASE Restart(p)
  <2>1. /\ pc'[p] = "declare" /\ at'[p] = 1 /\ loaded'[p] = <<>>
    BY <1>0, <1>2 DEF Restart, Goto, Typed
  <2> QED
    BY <1>0, <1>b, <2>1 DEF LoadedSoFar
<1>3. ASSUME pc[p] = "look", loaded' = [loaded EXCEPT ![p] = Append(@, Current(p))]
      PROVE  /\ loaded'[p] \in Seq(AllBuilds)
             /\ Len(loaded'[p]) = at[p]
             /\ \A i \in 1..Len(loaded'[p]) : loaded'[p][i] = Builds(p)[i]
  <2>1. loaded'[p] = Append(loaded[p], Builds(p)[at[p]])
    BY <1>0, <1>3 DEF Typed, Current
  <2>2. Builds(p)[at[p]] \in AllBuilds
    BY <1>0
  <2>3. Len(loaded[p]) = at[p] - 1
    BY <1>0, <1>3 DEF LoadedSoFar
  <2>4. /\ Append(loaded[p], Builds(p)[at[p]]) \in Seq(AllBuilds)
        /\ Len(Append(loaded[p], Builds(p)[at[p]])) = at[p]
    BY <1>0, <2>2, <2>3
  <2>5. ASSUME NEW i \in 1..at[p]
        PROVE  Append(loaded[p], Builds(p)[at[p]])[i] = Builds(p)[i]
    <3>1. CASE i = at[p]
      BY <1>0, <2>2, <2>3, <3>1
    <3>2. CASE i # at[p]
      <4>1. i \in 1..Len(loaded[p])
        BY <1>0, <2>3, <3>2
      <4>2. loaded[p][i] = Builds(p)[i]
        BY <1>0, <4>1 DEF LoadedSoFar
      <4> QED
        BY <1>0, <2>2, <2>3, <4>1, <4>2
    <3> QED
      BY <3>1, <3>2
  <2> QED
    BY <2>1, <2>4, <2>5
<1>4. ASSUME pc[p] = "look", loaded' = [loaded EXCEPT ![p] = Append(@, Current(p))], NextBuild(p)
      PROVE  LoadedSoFar(p)'
  BY <1>0, <1>b, <1>3, <1>4, NextBuildMoves DEF LoadedSoFar
<1>5. CASE Hit(p)
  <2>1. Key(p) \in Keys /\ Current(p) \in AllBuilds
    BY <1>0, CurrentBuild
  <2>2. /\ final[Key(p)].build \in AllBuilds
        /\ CacheKey(final[Key(p)].build) = CacheKey(Current(p))
    BY <1>0, <1>5, <2>1 DEF Hit, FilesWhole, Key
  <2>3. final[Key(p)].build = Current(p)
    BY <2>1, <2>2, KeyDetermines
  <2> QED
    BY <1>4, <1>5, <2>3 DEF Hit
<1>6. CASE Compile(p)
  <2>1. CASE Goto(p, "create") /\ UNCHANGED at
    <3>1. pc'[p] = "create" /\ at'[p] = at[p]
      BY <1>0, <2>1 DEF Goto, Typed
    <3> QED
      BY <1>0, <1>b, <1>3, <1>6, <3>1 DEF Compile, LoadedSoFar
  <2>2. CASE NextBuild(p)
    BY <1>4, <1>6, <2>2 DEF Compile
  <2> QED
    BY <1>6, <2>1, <2>2 DEF Compile
<1>7. ASSUME pc[p] \in {"create", "write", "rename"}, UNCHANGED loaded, NextBuild(p)
      PROVE  LoadedSoFar(p)'
  BY <1>0, <1>b, <1>7, NextBuildMoves DEF LoadedSoFar
<1>8. CASE WriteFails(p) \/ Rename(p) \/ RenameFails(p)
  BY <1>7, <1>8 DEF WriteFails, Rename, RenameFails
<1> QED
  BY <1>1, <1>2, <1>5, <1>6, <1>8 DEF OpenStep

\* A step is of one process: the others stay where they are.
LEMMA OthersStay ==
    ASSUME OpenInv, NEW p \in Process, OpenStep(p), NEW r \in Process, r # p
    PROVE  /\ pc'[r] = pc[r] /\ at'[r] = at[r] /\ loaded'[r] = loaded[r]
           /\ declared'[r] = declared[r] /\ capacity'[r] = capacity[r]
           /\ tmp'[TmpName(r)] = tmp[TmpName(r)]
<1> USE DEF OpenInv
<1>0. /\ Typed
      /\ at[p] \in 1..Len(Builds(p))
      /\ TmpName(r) # TmpName(p)
      /\ TmpName(r) \in TmpNames
  BY CurrentBuild DEF LoadedSoFar, TmpName
<1>1. CASE Declare(p) \/ ResolveCapacity(p) \/ OpenFails(p) \/ Configure(p) \/ Restart(p)
  BY <1>0, <1>1 DEF Declare, ResolveCapacity, OpenFails, Configure, Restart, Goto, Typed, fileVars
<1>2. CASE Create(p) \/ Write(p)
  BY <1>0, <1>2 DEF Create, Write, Goto, Typed
<1>3. CASE Hit(p)
  BY <1>0, <1>3, NextBuildMoves DEF Hit, Typed, fileVars
<1>4. CASE Compile(p)
  <2>1. CASE Goto(p, "create") /\ UNCHANGED at
    BY <1>0, <1>4, <2>1 DEF Compile, Goto, Typed, fileVars
  <2>2. CASE NextBuild(p)
    BY <1>0, <1>4, <2>2, NextBuildMoves DEF Compile, Typed, fileVars
  <2> QED
    BY <1>4, <2>1, <2>2 DEF Compile
<1>5. CASE WriteFails(p)
  BY <1>0, <1>5, NextBuildMoves DEF WriteFails, Typed, fileVars
<1>6. CASE Rename(p)
  BY <1>0, <1>6, NextBuildMoves DEF Rename, Typed
<1>7. CASE RenameFails(p)
  BY <1>0, <1>7, NextBuildMoves DEF RenameFails, Typed
<1> QED
  BY <1>1, <1>2, <1>3, <1>4, <1>5, <1>6, <1>7 DEF OpenStep

\* A cache entry changes by a rename only, to the whole text of its own key.
LEMMA FilesStep ==
    ASSUME OpenInv, NEW p \in Process, OpenStep(p)
    PROVE  FilesWhole'
<1> USE DEF OpenInv
<1>0. /\ Typed /\ LoadedSoFar(p) /\ FilesWhole
      /\ at[p] \in 1..Len(Builds(p))
      /\ TmpName(p) \in TmpNames /\ Key(p) \in Keys /\ Current(p) \in AllBuilds
  BY CurrentBuild DEF LoadedSoFar
<1>1. ASSUME NEW r \in Process, pc'[r] = "rename", r # p
      PROVE  (tmp[TmpName(r)] = Text(r, TRUE))'
  <2>1. /\ pc[r] = "rename" /\ at'[r] = at[r] /\ tmp'[TmpName(r)] = tmp[TmpName(r)]
    BY <1>1, OthersStay
  <2>2. TmpName(r)' = TmpName(r) /\ Text(r, TRUE)' = Text(r, TRUE)
    BY <2>1 DEF TmpName, Text, Key, Current, Builds
  <2> QED
    BY <1>0, <2>1, <2>2 DEF FilesWhole
<1>2. ASSUME pc'[p] = "rename"
      PROVE  (tmp[TmpName(p)] = Text(p, TRUE))'
  <2>1. Write(p)
    <3>1. CASE Hit(p) \/ Compile(p)
      BY <1>0, <1>2, <3>1, NextBuildMoves DEF Hit, Compile, Goto, Typed
    <3>2. CASE WriteFails(p) \/ Rename(p) \/ RenameFails(p)
      BY <1>0, <1>2, <3>2, NextBuildMoves DEF WriteFails, Rename, RenameFails
    <3>3. CASE Declare(p) \/ ResolveCapacity(p) \/ OpenFails(p) \/ Configure(p) \/ Restart(p)
               \/ Create(p)
      BY <1>0, <1>2, <3>3 DEF Declare, ResolveCapacity, OpenFails, Configure, Restart, Create,
                              Goto, Typed
    <3> QED
      BY <3>1, <3>2, <3>3 DEF OpenStep
  <2>2. tmp'[TmpName(p)] = Text(p, TRUE) /\ at' = at
    BY <1>0, <2>1 DEF Write, Typed
  <2>3. TmpName(p)' = TmpName(p) /\ Text(p, TRUE)' = Text(p, TRUE)
    BY <2>2 DEF TmpName, Text, Key, Current, Builds
  <2> QED
    BY <2>2, <2>3
<1>3. ASSUME NEW key \in Keys, final'[key] # None
      PROVE  /\ final'[key].whole
             /\ final'[key].build \in AllBuilds
             /\ CacheKey(final'[key].build) = key
  <2>1. CASE final'[key] = final[key]
    BY <1>0, <1>3, <2>1 DEF FilesWhole
  <2>2. CASE final'[key] # final[key]
    <3>1. Rename(p)
      BY <2>2 DEF OpenStep, Declare, ResolveCapacity, Hit, Compile, OpenFails, Create, Write,
                  WriteFails, RenameFails, Configure, Restart, fileVars
    <3>2. final' = [final EXCEPT ![Key(p)] = tmp[TmpName(p)]] /\ pc[p] = "rename"
      BY <3>1 DEF Rename
    <3>3. key = Key(p) /\ final'[key] = tmp[TmpName(p)]
      BY <1>0, <2>2, <3>2 DEF Typed
    <3>4. final'[key] = Text(p, TRUE)
      BY <1>0, <3>2, <3>3 DEF FilesWhole
    <3> QED
      BY <1>0, <3>3, <3>4 DEF Text, Key
  <2> QED
    BY <2>1, <2>2
<1>4. Keys' = Keys /\ AllBuilds' = AllBuilds
  BY DEF Keys, AllBuilds, Builds
<1> QED
  BY <1>1, <1>2, <1>3, <1>4 DEF FilesWhole

\* A declaration stays what it was, and the open follows it with the capacity
\* that was resolved.
LEMMA ServedOwnStep ==
    ASSUME OpenInv, NEW p \in Process, OpenStep(p)
    PROVE  Served(p)'
<1> USE DEF OpenInv
<1>0. Typed /\ Served(p) /\ at[p] \in 1..Len(Builds(p)) /\ Nodes(p) # None
  <2>1. Nodes(p) \in Nat
    BY OpenAssumption DEF Nodes, Wanted, AtLeast, DefaultNodes
  <2> QED
    BY <2>1, OpenAssumption DEF LoadedSoFar
<1>1. CASE Declare(p)
  <2>1. pc'[p] = "resolve"
    BY <1>0, <1>1 DEF Declare, Goto, Typed
  <2>2. PICK inspected \in BOOLEAN :
            /\ inspected => KernelOf[p] = "Msa"
            /\ declared' = [declared EXCEPT ![p] = Identity(p, inspected)]
    BY <1>1 DEF Declare
  <2>3. declared'[p] = Identity(p, inspected)
    BY <1>0, <2>2 DEF Typed
  <2> QED
    BY <2>1, <2>2, <2>3 DEF Served
<1>2. CASE ResolveCapacity(p)
  <2>1. CASE Resolve(KernelOf[p], Requested[p], LimitsOf[p]) = None
    <3>1. pc'[p] = "refused" /\ declared' = declared
      BY <1>0, <1>2, <2>1 DEF ResolveCapacity, Goto, Typed
    <3> QED
      BY <1>0, <1>2, <3>1 DEF ResolveCapacity, Served
  <2>2. CASE Resolve(KernelOf[p], Requested[p], LimitsOf[p]) # None
    <3>1. Resolve(KernelOf[p], Requested[p], LimitsOf[p]) = Nodes(p)
      BY <2>2 DEF Resolve, Nodes
    <3>2. /\ pc'[p] = "look" /\ declared' = declared
          /\ capacity'[p] = [nodes |-> Nodes(p), words |-> None,
                wide |-> WideNodes(p)]
      BY <1>0, <1>2, <2>2, <3>1 DEF ResolveCapacity, Goto, Typed, WideNodes
    <3> QED
      BY <1>0, <1>2, <2>2, <3>2 DEF ResolveCapacity, Served
  <2> QED
    BY <2>1, <2>2
<1>3. ASSUME pc[p] \notin {"declare", "resolve", "refused"},
             pc'[p] \notin {"declare", "open"}, UNCHANGED <<declared, capacity>>
      PROVE  Served(p)'
  BY <1>0, <1>3 DEF Served
<1>4. CASE Hit(p) \/ Compile(p)
  <2>1. pc'[p] \notin {"declare", "open"}
    BY <1>0, <1>4, NextBuildMoves DEF Hit, Compile, Goto, Typed
  <2> QED
    BY <1>3, <1>4, <2>1 DEF Hit, Compile
<1>5. CASE WriteFails(p) \/ Rename(p) \/ RenameFails(p)
  <2>1. pc'[p] \notin {"declare", "open"}
    BY <1>0, <1>5, NextBuildMoves DEF WriteFails, Rename, RenameFails
  <2> QED
    BY <1>3, <1>5, <2>1 DEF WriteFails, Rename, RenameFails
<1>6. CASE Create(p) \/ Write(p)
  <2>1. pc'[p] \notin {"declare", "open"}
    BY <1>0, <1>6 DEF Create, Write, Goto, Typed
  <2> QED
    BY <1>3, <1>6, <2>1 DEF Create, Write
<1>7. CASE OpenFails(p)
  <2>1. pc'[p] = "refused" /\ declared' = declared
    BY <1>0, <1>7 DEF OpenFails, Goto, Typed
  <2> QED
    BY <1>0, <1>7, <2>1 DEF OpenFails, Served
<1>8. CASE Configure(p)
  <2> DEFINE w == OpenedReplicaWords(KernelOf[p], NodesFor(p, "Msa", capacity[p].nodes),
                                     LimitsOf[p])
  <2>1. CASE w = None
    <3>1. pc'[p] = "refused" /\ declared' = declared
      BY <1>0, <1>8, <2>1 DEF Configure, Goto, Typed
    <3> QED
      BY <1>0, <1>8, <3>1 DEF Configure, Served
  <2>2. CASE w # None
    <3>1. PICK words :
              capacity[p] = [nodes |-> Nodes(p), words |-> words, wide |-> WideNodes(p)]
      BY <1>0, <1>8 DEF Configure, Served
    <3>2. capacity[p].nodes = Nodes(p)
      BY <3>1
    <3>3. /\ pc'[p] = "open" /\ declared' = declared
          /\ capacity' = [capacity EXCEPT ![p].words = w]
      BY <1>0, <1>8, <2>2 DEF Configure, Goto, Typed
    <3>4. capacity'[p] = [nodes |-> Nodes(p), words |-> w, wide |-> WideNodes(p)]
      BY <1>0, <3>1, <3>3 DEF Typed
    <3>5. w = Words(p)
      BY <3>2 DEF Words
    <3>6. Words(p) # None /\ capacity'[p].words = Words(p)
      BY <2>2, <3>4, <3>5
    <3>7. /\ Resolve(KernelOf[p], Requested[p], LimitsOf[p]) # None
          /\ \E inspected \in BOOLEAN :
                 /\ inspected => KernelOf[p] = "Msa"
                 /\ declared[p] = Identity(p, inspected)
      BY <1>0, <1>8 DEF Configure, Served
    <3> HIDE DEF w
    <3> QED
      BY <3>3, <3>4, <3>6, <3>7 DEF Served
  <2> QED
    BY <2>1, <2>2
<1>9. CASE Restart(p)
  <2>1. pc'[p] = "declare"
    BY <1>0, <1>9 DEF Restart, Goto, Typed
  <2> QED
    BY <2>1 DEF Served
<1> QED
  BY <1>1, <1>2, <1>4, <1>5, <1>6, <1>7, <1>8, <1>9 DEF OpenStep

\* Every step of a process that opens its device keeps the invariant.
LEMMA OpenInvStep == OpenInv /\ [OpenNext]_openVars => OpenInv'
<1> SUFFICES ASSUME OpenInv, [OpenNext]_openVars PROVE OpenInv'
  OBVIOUS
<1>1. CASE UNCHANGED openVars
  <2>1. Typed'
    BY <1>1 DEF openVars, OpenInv, Typed, Keys, TmpNames, Builds
  <2>2. ASSUME NEW r \in Process PROVE LoadedSoFar(r)'
    BY <1>1 DEF openVars, OpenInv, LoadedSoFar, Builds, AllBuilds
  <2>3. ASSUME NEW r \in Process PROVE Served(r)'
    BY <1>1 DEF openVars, OpenInv, Served
  <2>4. FilesWhole'
    BY <1>1 DEF openVars, OpenInv, FilesWhole, Keys, AllBuilds, Builds, TmpName, Text, Key, Current
  <2> QED
    BY <2>1, <2>2, <2>3, <2>4 DEF OpenInv
<1>2. CASE OpenNext
  <2>1. PICK p \in Process : OpenStep(p)
    BY <1>2 DEF OpenNext
  <2>2. ASSUME NEW r \in Process PROVE LoadedSoFar(r)' /\ Served(r)'
    <3>1. CASE r = p
      BY <2>1, <3>1, LoadedOwnStep, ServedOwnStep
    <3>2. CASE r # p
      <4>1. LoadedSoFar(r) /\ Served(r)
        BY DEF OpenInv
      <4>2. /\ pc'[r] = pc[r] /\ at'[r] = at[r] /\ loaded'[r] = loaded[r]
            /\ declared'[r] = declared[r] /\ capacity'[r] = capacity[r]
        BY <2>1, <3>2, OthersStay
      <4> QED
        BY <4>1, <4>2 DEF LoadedSoFar, Served, Builds, AllBuilds
    <3> QED
      BY <3>1, <3>2
  <2> QED
    BY <2>1, <2>2, TypedStep, FilesStep DEF OpenInv
<1> QED
  BY <1>1, <1>2

\* The inductive invariant of the processes that open their devices.
THEOREM OpensSafe == OpenSpec => []OpenInv
<1> QED
  BY OpenInvInit, OpenInvStep, PTL DEF OpenSpec

-----------------------------------------------------------------------------
\* A cache entry is whole, whatever fails, dies or is left over.
THEOREM CacheIsWhole == OpenSpec => []CacheWhole
<1>1. OpenInv => CacheWhole
  BY DEF OpenInv, FilesWhole, CacheWhole
<1> QED
  BY <1>1, OpensSafe, PTL

\* The modules a device runs are the ones its process would have compiled.
THEOREM LoadsItsOwn == OpenSpec => []LoadedIsOwn
<1>1. OpenInv => LoadedIsOwn
  <2> SUFFICES ASSUME OpenInv, NEW p \in Process
               PROVE  /\ loaded[p] = SubSeq(Builds(p), 1, Len(loaded[p]))
                      /\ pc[p] = "open" => Len(loaded[p]) = Len(Builds(p))
    BY DEF LoadedIsOwn
  <2>1. /\ loaded[p] \in Seq(AllBuilds) /\ Len(loaded[p]) <= Len(Builds(p))
        /\ \A i \in 1..Len(loaded[p]) : loaded[p][i] = Builds(p)[i]
        /\ pc[p] = "open" => Len(loaded[p]) = Len(Builds(p))
    BY DEF OpenInv, LoadedSoFar
  <2>2. Builds(p) \in Seq(AllBuilds) /\ Len(Builds(p)) \in Nat
    BY BuildsSeq
  <2>3. SubSeq(Builds(p), 1, Len(loaded[p])) = [i \in 1..Len(loaded[p]) |-> Builds(p)[i]]
    BY <2>1, <2>2
  <2>4. loaded[p] = [i \in 1..Len(loaded[p]) |-> loaded[p][i]]
    BY <2>1
  <2> QED
    BY <2>1, <2>3, <2>4
<1> QED
  BY <1>1, OpensSafe, PTL

\* What a process declared before its device was open, the device serves.
THEOREM ServesDeclared == OpenSpec => []DeclaredIsServed
<1>1. OpenInv => DeclaredIsServed
  <2> SUFFICES ASSUME OpenInv, NEW p \in Process, pc[p] = "open"
               PROVE  /\ declared[p].nodes = capacity[p].nodes
                      /\ KernelOf[p] = "Msa" /\ declared[p].probed =>
                             declared[p].words = capacity[p].words
    BY DEF DeclaredIsServed
  <2>1. /\ Resolve(KernelOf[p], Requested[p], LimitsOf[p]) # None
        /\ \E words, wide : capacity[p] = [nodes |-> Nodes(p), words |-> words, wide |-> wide]
        /\ capacity[p].words =
               OpenedReplicaWords(KernelOf[p], NodesFor(p, "Msa", Nodes(p)), LimitsOf[p])
    BY DEF OpenInv, Served, Words
  <2>2. PICK inspected \in BOOLEAN :
            /\ inspected => KernelOf[p] = "Msa"
            /\ declared[p] = Identity(p, inspected)
    BY DEF OpenInv, Served
  <2>3. capacity[p].nodes = Nodes(p)
    BY <2>1
  <2>4. AdvertisedNodes(KernelOf[p], Requested[p]) = Nodes(p)
    <3>1. Nodes(p) \in Nat /\ LimitsOf[p] \in DeviceLimits /\ KernelOf[p] \in KernelKind
      BY OpenAssumption DEF Nodes, Wanted, AtLeast, DefaultNodes
    <3>2. CASE KernelOf[p] # "Sa"
      BY <3>2 DEF AdvertisedNodes, Nodes
    <3>3. CASE KernelOf[p] = "Sa"
      <4>1. ~(Nodes(p) > SaBudget(LimitsOf[p]))
        BY <2>1, <3>3 DEF Resolve, Nodes, Budget
      <4>2. LocalCapNodes \in Nat
        BY DEF LocalCapNodes, LOCAL_MEM_BYTES_PER_THREAD
      <4>3. UsableBytes(LimitsOf[p]) \in Int
        BY <3>1 DEF UsableBytes, DeviceLimits
      <4>4. ASSUME NEW perNode \in Int
            PROVE  UsableBytes(LimitsOf[p]) \div AtLeast(perNode, 1) \in Int
        BY <4>3 DEF AtLeast
      <4>5. LimitsOf[p].sms * ((LimitsOf[p].threads * 9) \div 8 + SA_THREADS_PER_NONCE) \in Int
        BY <3>1 DEF DeviceLimits, SA_THREADS_PER_NONCE
      <4>6. SaBudget(LimitsOf[p]) <= LocalCapNodes /\ SaBudget(LimitsOf[p]) \in Int
        BY <4>2, <4>4, <4>5 DEF SaBudget, AtMost
      <4>7. Nodes(p) <= LocalCapNodes
        BY <3>1, <4>1, <4>2, <4>6
      <4> QED
        BY <3>3, <4>7 DEF AdvertisedNodes, Nodes, AtMost
    <3> QED
      BY <3>2, <3>3
  <2>5. declared[p].nodes = Nodes(p)
    BY <2>2, <2>4 DEF Identity
  <2>6. ASSUME KernelOf[p] = "Msa", declared[p].probed
        PROVE  declared[p].words = capacity[p].words
    <3> DEFINE words == MsaReplicaWords(MsaDynamicShared(LimitsOf[p].optin), Nodes(p))
    <3> HIDE DEF words
    <3>0. CASE inspected = FALSE
      BY <2>2, <2>6, <3>0 DEF Identity
    <3>1. CASE inspected = TRUE
      <4>1. declared[p] = [nodes |-> Nodes(p), probed |-> words # None,
                           words |-> IF words = None THEN MSA_REPLICA_WORDS ELSE words]
        BY <2>2, <2>4, <3>1 DEF Identity, words
      <4>a. declared[p].probed = (words # None)
        BY <4>1
      <4>b. words # None
        BY <2>6, <4>a, Zenon
      <4>2. words # None /\ declared[p].words = words
        BY <4>1, <4>b
      <4> QED
        BY <2>1, <2>6, <4>2 DEF OpenedReplicaWords, NodesFor, words
    <3> QED
      BY <3>0, <3>1
  <2> QED
    BY <2>3, <2>5, <2>6
<1> QED
  BY <1>1, OpensSafe, PTL

-----------------------------------------------------------------------------
(***************************************************************************)
(* Memory.  SA's budget counts nine eighths of a byte a node for each       *)
(* resident thread, rounded down for all the threads of a multiprocessor    *)
(* together: nothing is lost when their number is a multiple of eight.      *)
(***************************************************************************)
\* A multiprocessor has room for whole warps, of 32 threads; eights will do.
WholeWarps == \A p \in Process : LimitsOf[p].threads % 8 = 0

\* A working set of what the budget allows, for the frames and the deltas of
\* every multiprocessor.
LEMMA SaFits ==
    ASSUME NEW lim \in DeviceLimits, lim.threads % 8 = 0,
           NEW n \in Nat, n <= SaBudget(lim)
    PROVE  SaWorkingSet(n, lim) <= UsableBytes(lim) + lim.sms * lim.threads
<1> DEFINE S == lim.sms
           U == UsableBytes(lim)
           w == SaFrameBytes(n)
<1>1. S \in Nat \ {0} /\ lim.threads \in Nat /\ U \in Nat
  BY DEF DeviceLimits, UsableBytes
<1>2. PICK e \in Nat : lim.threads = 8 * e
  BY <1>1, Divisor
<1>3. (lim.threads * 9) \div 8 = 9 * e
  <2>1. lim.threads * 9 = (9 * e) * 8 + 0
    BY <1>2
  <2>. QED BY <1>2, <2>1, DivMod
<1>4. w \in Nat /\ 8 * w <= 9 * n + 7
  BY DEF SaFrameBytes, CeilDiv
<1> DEFINE per == S * (9 * e + 256)
<1>5. per \in Nat /\ per >= 1
  <2>1. \A u \in Nat \ {0}, v \in Nat \ {0} : u * v \in Nat \ {0}
    OBVIOUS
  <2>2. 9 * e + 256 \in Nat \ {0}
    BY <1>2
  <2>. QED BY <1>1, <2>1, <2>2
<1>6. n <= U \div per
  <2>1. S * ((lim.threads * 9) \div 8 + SA_THREADS_PER_NONCE) = per
    BY <1>3 DEF SA_THREADS_PER_NONCE
  <2> HIDE DEF per, U
  <2>2. AtLeast(per, 1) = per
    BY <1>5 DEF AtLeast
  <2>3. U \div per \in Nat
    BY <1>1, <1>5
  <2>4. LocalCapNodes \in Nat
    BY DEF LocalCapNodes, LOCAL_MEM_BYTES_PER_THREAD
  <2>5. SaBudget(lim) = AtMost(U \div per, LocalCapNodes)
    BY <2>1, <2>2 DEF SaBudget, U
  <2>. QED BY <2>3, <2>4, <2>5 DEF AtMost
<1>7. per * n <= U
  <2> HIDE DEF per, U
  <2>1. U \div per \in Nat /\ per * (U \div per) <= U
    BY <1>1, <1>5
  <2>2. \A x \in Nat, y \in Nat, z \in Nat : x <= y => z * x <= z * y
    OBVIOUS
  <2>3. per * n <= per * (U \div per)
    BY <1>5, <1>6, <2>1, <2>2
  <2>. QED BY <1>1, <1>5, <2>1, <2>3
<1>8. S * (8 * w * e) <= S * ((9 * n + 7) * e)
  <2>1. \A x \in Nat, y \in Nat, z \in Nat : x <= y => x * z <= y * z /\ z * x <= z * y
    OBVIOUS
  <2>2. 8 * w \in Nat /\ 9 * n + 7 \in Nat
    BY <1>4
  <2> HIDE DEF w
  <2>3. 8 * w * e <= (9 * n + 7) * e
    BY <1>2, <1>4, <2>1, <2>2
  <2>4. 8 * w * e \in Nat /\ (9 * n + 7) * e \in Nat
    BY <1>2, <1>4, <2>2
  <2>. QED BY <1>1, <2>1, <2>3, <2>4
<1>9. SaWorkingSet(n, lim) = S * (8 * w * e) + S * (256 * n)
  <2>1. SaWorkingSet(n, lim) = w * S * (8 * e) + n * S * 256
    BY <1>2 DEF SaWorkingSet, SA_THREADS_PER_NONCE
  <2> HIDE DEF w, S
  <2>. QED BY <1>1, <1>2, <1>4, <2>1
<1>10. S * ((9 * n + 7) * e) + S * (256 * n) = per * n + S * (7 * e)
  <2> HIDE DEF S
  <2>. QED BY <1>1, <1>2
<1>11. S * (7 * e) <= S * lim.threads
  <2>1. \A x \in Nat, y \in Nat, z \in Nat : x <= y => z * x <= z * y
    OBVIOUS
  <2>. QED BY <1>1, <1>2, <2>1
<1>12. /\ S * (8 * w * e) \in Int /\ S * (256 * n) \in Int /\ S * ((9 * n + 7) * e) \in Int
       /\ S * (7 * e) \in Int /\ S * lim.threads \in Int /\ per * n \in Int
  <2> HIDE DEF S, w
  <2>. QED BY <1>1, <1>2, <1>4
<1> HIDE DEF S, U, w, per
<1>13. SaWorkingSet(n, lim) <= U + S * lim.threads
  BY <1>1, <1>7, <1>8, <1>9, <1>10, <1>11, <1>12
<1>. QED BY <1>13 DEF S, U

\* What the loop of sa_wide_budget stops at fits, unless it is zero.
LEMMA WideFits ==
    ASSUME NEW lim \in DeviceLimits, NEW frame \in Nat, SaWideBudget(frame, lim) > 0
    PROVE  SaWideWorkingSet(SaWideBudget(frame, lim), frame, lim) <= UsableBytes(lim)
<1> DEFINE start == WideStart(frame, lim)
           Fits(n) == SaWideWorkingSet(n, frame, lim) <= UsableBytes(lim)
<1>1. start \in Nat
  <2> DEFINE free == SubSat(UsableBytes(lim), SaWideWorkingSet(0, frame, lim))
             each == lim.sms * SA_THREADS_PER_NONCE * SA_WIDE_DELTA_BYTES
  <2>1. lim.sms \in Nat \ {0} /\ lim.threads \in Nat /\ UsableBytes(lim) \in Nat
    BY DEF DeviceLimits, UsableBytes
  <2>2. SaWideWorkingSet(0, frame, lim) \in Int
    <3>1. SaFrameBytes(frame) \in Nat
      BY DEF SaFrameBytes, CeilDiv
    <3>2. SaFrameBytes(frame) * lim.sms * lim.threads \in Nat
      BY <2>1, <3>1
    <3>. QED BY <2>1, <3>2 DEF SaWideWorkingSet, SA_WIDE_DELTA_BYTES, SA_THREADS_PER_NONCE,
                             NEGLOG_TABLE_BYTES
  <2>3. free \in Nat
    BY <2>1, <2>2 DEF SubSat
  <2>4. each \in Nat \ {0}
    BY <2>1 DEF SA_THREADS_PER_NONCE, SA_WIDE_DELTA_BYTES
  <2> HIDE DEF free, each
  <2>5. free \div each \in Nat
    BY <2>3, <2>4
  <2>. QED BY <2>5 DEF WideStart, AtMost, free, each
<1> HIDE DEF start, Fits
<1>2. SaWideBudget(frame, lim) =
          IF start = 0 \/ Fits(start) THEN start
          ELSE CHOOSE n \in 0..(start - 1) :
                   /\ n = 0 \/ Fits(n)
                   /\ \A m \in (n + 1)..start : ~Fits(m)
  BY DEF SaWideBudget, start, Fits
<1>3. CASE start = 0 \/ Fits(start)
  BY <1>2, <1>3 DEF Fits
<1>4. CASE start # 0 /\ ~Fits(start)
  <2> DEFINE D == {d \in 1..start : d = start \/ Fits(start - d)}
  <2>1. D \subseteq Nat /\ D # {}
    BY <1>1, <1>4
  <2>2. PICK d \in D : \A m \in D : d <= m
    BY <2>1, LeastNatural
  <2>3. start - d \in 0..(start - 1) /\ (start - d = 0 \/ Fits(start - d))
    BY <1>1, <2>2
  <2>4. ASSUME NEW m \in (start - d + 1)..start PROVE ~Fits(m)
    <3>1. CASE m = start
      BY <1>4, <3>1
    <3>2. CASE m # start
      <4>1. start - m \in 1..start /\ start - m < d /\ start - (start - m) = m
        BY <1>1, <2>2, <3>2
      <4>2. start - m \notin D
        BY <1>1, <2>2, <4>1
      <4>. QED BY <4>1, <4>2
    <3>. QED BY <3>1, <3>2
  <2>5. \E n \in 0..(start - 1) :
            /\ n = 0 \/ Fits(n)
            /\ \A m \in (n + 1)..start : ~Fits(m)
    BY <2>3, <2>4
  <2> DEFINE b == CHOOSE n \in 0..(start - 1) :
                      /\ n = 0 \/ Fits(n)
                      /\ \A m \in (n + 1)..start : ~Fits(m)
  <2>6. b = 0 \/ Fits(b)
    BY <2>5
  <2>7. SaWideBudget(frame, lim) = b
    BY <1>2, <1>4
  <2> HIDE DEF b
  <2>. QED BY <2>6, <2>7 DEF Fits
<1>. QED BY <1>3, <1>4

\* The replica words of a multi-spin device hold the reads of every session up
\* to the cap they give.
LEMMA WordsFit ==
    ASSUME NEW nodes \in Nat, NEW dynamic \in Nat,
           MsaReplicaWords(dynamic, nodes) # None,
           NEW reads \in 1..MsaMaxReads(MsaReplicaWords(dynamic, nodes))
    PROVE  MsaSharedBytes(nodes, SessionWords(reads)) <= dynamic
<1> DEFINE words   == MsaReplicaWords(dynamic, nodes)
           Fits(w) == MsaSharedBytes(nodes, w) <= dynamic
           Most(w) == Fits(w) /\ \A v \in (w + 1)..MSA_REPLICA_WORDS : ~Fits(v)
<1> HIDE DEF Fits
<1>1. words = IF \E w \in 1..MSA_REPLICA_WORDS : Fits(w)
              THEN CHOOSE w \in 1..MSA_REPLICA_WORDS : Most(w) ELSE None
  BY DEF MsaReplicaWords, Fits
<1>2. \E w \in 1..MSA_REPLICA_WORDS : Fits(w)
  BY <1>1
<1>3. \E w \in 1..MSA_REPLICA_WORDS : Most(w)
  BY <1>2 DEF MSA_REPLICA_WORDS
<1>4. words \in 1..2 /\ Fits(words)
  <2> DEFINE w == CHOOSE w \in 1..MSA_REPLICA_WORDS : Most(w)
  <2>1. w \in 1..MSA_REPLICA_WORDS /\ Most(w)
    BY <1>3
  <2>2. words = w
    BY <1>1, <1>2
  <2> HIDE DEF w, words
  <2>. QED BY <2>1, <2>2 DEF MSA_REPLICA_WORDS
<1>5. reads \in 1..MsaMaxReads(words)
  OBVIOUS
<1> HIDE DEF words
<1>6. CASE words = 1
  <2>1. CeilDiv(reads, MSA_LANES) = 1
    BY <1>5, <1>6 DEF MsaMaxReads, MSA_LANES, CeilDiv
  <2>. QED BY <1>4, <1>6, <2>1 DEF SessionWords, Fits
<1>7. CASE words = 2
  <2>1. SessionWords(reads) \in 1..2
    BY DEF SessionWords
  <2>2. MsaSharedBytes(nodes, 1) <= MsaSharedBytes(nodes, 2)
    BY DEF MsaSharedBytes, MSA_FIXED_SHARED_BYTES
  <2>3. MsaSharedBytes(nodes, 1) \in Int /\ MsaSharedBytes(nodes, 2) \in Int
    BY DEF MsaSharedBytes, MSA_FIXED_SHARED_BYTES
  <2>. QED BY <1>4, <1>7, <2>1, <2>2, <2>3 DEF Fits
<1>. QED BY <1>4, <1>6, <1>7

\* Every job an open device may be given fits the memory its capacity was
\* derived from, on every device whose threads come in whole warps.
THEOREM CapacityAlwaysFits == WholeWarps => (OpenSpec => []CapacityFits)
<1> SUFFICES ASSUME WholeWarps PROVE OpenSpec => []CapacityFits
  OBVIOUS
<1>1. OpenInv => CapacityFits
  <2> SUFFICES ASSUME OpenInv, NEW p \in Process, pc[p] = "open"
      PROVE  LET dev == capacity[p]
                 lim == LimitsOf[p]
             IN  /\ KernelOf[p] = "Sa" =>
                       /\ SaWorkingSet(dev.nodes, lim)
                              <= UsableBytes(lim) + lim.sms * lim.threads
                       /\ dev.wide > 0 =>
                              SaWideWorkingSet(dev.wide, dev.nodes, lim) <= UsableBytes(lim)
                 /\ KernelOf[p] = "Msa" =>
                       \A reads \in 1..MsaMaxReads(dev.words) :
                           MsaSharedBytes(dev.nodes, SessionWords(reads))
                               <= MsaDynamicShared(lim.optin)
                 /\ KernelOf[p] = "Gibbs" =>
                       dev.nodes + GIBBS_FIXED_SHARED_BYTES <= lim.shared
    BY DEF CapacityFits
  <2> DEFINE lim == LimitsOf[p]
  <2>1. /\ Resolve(KernelOf[p], Requested[p], lim) # None
        /\ \E words : capacity[p] = [nodes |-> Nodes(p), words |-> words, wide |-> WideNodes(p)]
        /\ Words(p) # None /\ capacity[p].words = Words(p)
    BY DEF OpenInv, Served
  <2>2. capacity[p].nodes = Nodes(p) /\ capacity[p].wide = WideNodes(p)
    BY <2>1
  <2>3. /\ lim \in DeviceLimits /\ lim.threads % 8 = 0
        /\ Nodes(p) \in Nat /\ Nodes(p) > 0
        /\ lim.shared \in Nat /\ lim.optin \in Nat
    BY OpenAssumption DEF WholeWarps, Nodes, Wanted, AtLeast, DefaultNodes, DeviceLimits
  <2>4. ~(Nodes(p) > Budget(KernelOf[p], lim))
    BY <2>1 DEF Resolve, Nodes
  <2> HIDE DEF lim
  <2>5. CASE KernelOf[p] = "Sa"
    <3>1. Nodes(p) <= SaBudget(lim)
      <4>1. SaBudget(lim) \in Int
        <5>1. LocalCapNodes \in Int
          BY DEF LocalCapNodes, LOCAL_MEM_BYTES_PER_THREAD
        <5>2. \A x \in Int, y \in Int : x \div AtLeast(y, 1) \in Int
          BY DEF AtLeast
        <5>3. UsableBytes(lim) \in Int
          BY <2>3 DEF UsableBytes, DeviceLimits
        <5>4. lim.sms * ((lim.threads * 9) \div 8 + SA_THREADS_PER_NONCE) \in Int
          BY <2>3 DEF DeviceLimits, SA_THREADS_PER_NONCE
        <5>. QED BY <5>1, <5>2, <5>3, <5>4 DEF SaBudget, AtMost
      <4>. QED BY <2>3, <2>4, <2>5, <4>1 DEF Budget
    <3>2. WideNodes(p) = SaWideBudget(Nodes(p), lim)
      BY <2>5 DEF WideNodes, SaWideMaxNodes, lim
    <3>. QED BY <2>2, <2>3, <2>5, <3>1, <3>2, SaFits, WideFits DEF lim
  <2>6. CASE KernelOf[p] = "Msa"
    <3>1. MsaDynamicShared(lim.optin) \in Nat
      BY <2>3 DEF MsaDynamicShared, SubSat, MSA_STATIC_SHARED_BYTES
    <3>2. Words(p) = MsaReplicaWords(MsaDynamicShared(lim.optin), Nodes(p))
      BY <2>6 DEF Words, OpenedReplicaWords, NodesFor, lim
    <3>. QED BY <2>1, <2>2, <2>3, <2>6, <3>1, <3>2, WordsFit DEF lim
  <2>7. CASE KernelOf[p] = "Gibbs"
    <3>1. ~(Nodes(p) > GibbsBudget(lim.shared))
      BY <2>4, <2>7 DEF Budget
    <3>. QED BY <2>2, <2>3, <2>7, <3>1 DEF GibbsBudget, SubSat, GIBBS_FIXED_SHARED_BYTES, lim
  <2>8. KernelOf[p] \in {"Sa", "Msa", "Gibbs"}
    BY OpenAssumption DEF KernelKind
  <2>. QED BY <2>5, <2>6, <2>7, <2>8
<1>. QED BY <1>1, OpensSafe, PTL

-----------------------------------------------------------------------------
(* The pool of stream pairs. *)

Letters == [ready : BOOLEAN, complete : BOOLEAN, exit : {"none", "after model", "abort"}]

PoolTyped ==
    /\ step \in [Caller -> Steps]
    /\ held \in [Caller -> Pair \cup {NoPair}]
    /\ available \in Seq(Pair)
    /\ leaked \in SUBSET Pair
    /\ DOMAIN compute = Pair /\ DOMAIN transfer = Pair
    /\ mail \in [Pair -> Letters]

\* A caller has a pair while it is at one of these steps, and only then; an
\* aborted process keeps what it had.
HoldsWhile(c) ==
    /\ step[c] \in Holding => held[c] \in Pair
    /\ step[c] \notin Holding /\ step[c] # "aborted" => held[c] = NoPair

\* What the streams of its pair hold at each step of a session that frees its
\* buffers in order and finds its job.
SessionAt(c) ==
    LET p       == held[c]
        pending == transfer[p] \in {<<"upload">>, <<"upload", "arm">>}
        mailed  == mail[p].ready \/ mail[p].complete
    IN  /\ step[c] = "alloc" => compute[p] = <<>> /\ transfer[p] = <<>>
        /\ step[c] \in {"settle", "free"} =>
               compute[p] \in {<<>>, <<"init">>} /\ transfer[p] = <<>>
        /\ step[c] = "launch" => compute[p] = <<>>
        /\ step[c] = "poll" => compute[p] \in {<<>>, <<"kernel">>}
        /\ step[c] \in {"launch", "poll"} =>
               /\ transfer[p] \in {<<>>, <<"arm">>, <<"upload">>, <<"upload", "arm">>}
               /\ pending \/ mailed

PoolInv ==
    /\ PoolTyped
    /\ \A c \in Caller : HoldsWhile(c) /\ SessionAt(c)
    /\ PairsInPlace
    /\ NoLostWakeup

-----------------------------------------------------------------------------
\* Callers that will look into the pool, or wake one that will.
Awake == {c \in Caller : step[c] \in {"take", "notify"}}

\* They are finitely many, before a step and after it.
LEMMA AwakeFinite ==
    /\ IsFiniteSet(Awake) /\ Cardinality(Awake) \in Nat
    /\ IsFiniteSet(Awake') /\ Cardinality(Awake)' \in Nat
<1>1. Awake \in SUBSET Caller /\ Awake' \in SUBSET Caller
  BY DEF Awake
<1>2. IsFiniteSet(Caller)
  BY PoolAssumption
<1>3. IsFiniteSet(Awake) /\ IsFiniteSet(Awake')
  BY <1>1, <1>2, FS_Subset
<1> QED
  BY <1>3, FS_CardinalityType

\* A step that wakes one caller counts one more, one that sends a caller on or
\* to sleep one less, any other as many.
LEMMA AwakeCount ==
    ASSUME NEW c \in Caller, NEW label, PoolTyped, step' = [step EXCEPT ![c] = label]
    PROVE  /\ step[c] \in {"take", "notify"} /\ label \notin {"take", "notify"} =>
                  Cardinality(Awake)' = Cardinality(Awake) - 1
           /\ step[c] \notin {"take", "notify"} /\ label \in {"take", "notify"} =>
                  Cardinality(Awake)' = Cardinality(Awake) + 1
           /\ step[c] \notin {"take", "notify"} /\ label \notin {"take", "notify"} =>
                  Cardinality(Awake)' = Cardinality(Awake)
<1>1. CASE step[c] \in {"take", "notify"} /\ label \notin {"take", "notify"}
  <2>1. c \in Awake /\ Awake' = Awake \ {c}
    BY <1>1 DEF Awake, PoolTyped
  <2> QED
    BY <1>1, <2>1, AwakeFinite, FS_RemoveElement
<1>2. CASE step[c] \notin {"take", "notify"} /\ label \in {"take", "notify"}
  <2>1. c \notin Awake /\ Awake' = Awake \cup {c}
    BY <1>2 DEF Awake, PoolTyped
  <2> QED
    BY <1>2, <2>1, AwakeFinite, FS_AddElement
<1>3. CASE step[c] \notin {"take", "notify"} /\ label \notin {"take", "notify"}
  <2>1. Awake' = Awake
    BY <1>3 DEF Awake, PoolTyped
  <2> QED
    BY <1>3, <2>1
<1> QED
  BY <1>1, <1>2, <1>3

-----------------------------------------------------------------------------
\* Every pair is in the pool at first, once.
LEMMA PoolInvInit == PoolInit => PoolInv
<1> SUFFICES ASSUME PoolInit PROVE PoolInv
  OBVIOUS
<1> DEFINE n == Cardinality(Pair)
<1>1. n \in Nat
  BY PoolAssumption, FS_CardinalityType
<1>2. available \in [1..n -> Pair] /\ \A p \in Pair : \E i \in DOMAIN available : available[i] = p
  BY DEF PoolInit
<1>3. available \in Seq(Pair)
  BY <1>1, <1>2
<1>4. \A i, k \in DOMAIN available : available[i] = available[k] => i = k
  <2>1. available \in Surjection(1..n, Pair)
    BY <1>2 DEF Surjection
  <2>2. IsFiniteSet(1..n) /\ Cardinality(1..n) = Cardinality(Pair)
    BY <1>1, FS_Interval
  <2>3. available \in Injection(1..n, Pair)
    BY <2>1, <2>2, FS_SurjSameCardinalityImpliesInj
  <2> QED
    BY <1>2, <2>3 DEF Injection, IsInjective
<1>5. PoolTyped
  BY <1>3 DEF PoolInit, PoolTyped, Letters, Steps, NoMail
<1>6. ASSUME NEW c \in Caller PROVE HoldsWhile(c) /\ SessionAt(c)
  BY DEF PoolInit, HoldsWhile, SessionAt, Holding, Steps
<1>7. PairsInPlace
  <2>1. \A c \in Caller : held[c] = NoPair
    BY DEF PoolInit
  <2>2. ASSUME NEW p \in Pair
        PROVE  Drained(p) /\ p \notin leaked /\ \E i \in DOMAIN available : available[i] = p
    BY <1>2 DEF PoolInit, Drained
  <2> QED
    BY <1>4, <2>1, <2>2, PoolAssumption DEF PairsInPlace
<1>8. NoLostWakeup
  BY DEF PoolInit, NoLostWakeup
<1> QED
  BY <1>5, <1>6, <1>7, <1>8 DEF PoolInv

-----------------------------------------------------------------------------
(* Steps of a session: the pool does not move. *)

\* The steps with a pair, by name.
LEMMA StepNames ==
    Holding = {"alloc", "settle", "launch", "poll", "signal", "join", "drop", "drop join",
               "drop context", "free", "drain"}
BY DEF Holding, Steps

\* Queues move on no other pair.
OnlyOn(p) ==
    /\ DOMAIN compute' = Pair /\ DOMAIN transfer' = Pair
    /\ \A q \in Pair \ {p} : compute'[q] = compute[q] /\ transfer'[q] = transfer[q]

\* A caller with a pair goes on to a step with a pair, and queues work on its
\* own pair only.
LEMMA SessionStep ==
    ASSUME PoolInv, NEW c \in Caller, step[c] \in Holding, NEW label \in Holding,
           step' = [step EXCEPT ![c] = label],
           UNCHANGED <<held, poolVars, mail>>, OnlyOn(held[c]), SessionAt(c)'
    PROVE  PoolInv'
<1>0. /\ PoolTyped /\ PairsInPlace /\ NoLostWakeup
      /\ \A r \in Caller : HoldsWhile(r) /\ SessionAt(r)
      /\ held[c] \in Pair
  BY DEF PoolInv, HoldsWhile
<1>1. PoolTyped'
  BY <1>0 DEF PoolTyped, poolVars, Holding, OnlyOn
<1>2. ASSUME NEW r \in Caller PROVE HoldsWhile(r)' /\ SessionAt(r)'
  <2>1. CASE r = c
    BY <1>0, <2>1 DEF HoldsWhile, PoolTyped
  <2>2. CASE r # c
    <3>1. step'[r] = step[r] /\ held'[r] = held[r]
      BY <1>0, <2>2 DEF PoolTyped
    <3>2. CASE step[r] \in Holding
      <4>1. held[r] \in Pair /\ held[r] # held[c]
        BY <1>0, <2>2, <3>2, PoolAssumption DEF HoldsWhile, PairsInPlace
      <4>2. /\ compute'[held[r]] = compute[held[r]] /\ transfer'[held[r]] = transfer[held[r]]
        BY <4>1 DEF OnlyOn
      <4> QED
        BY <1>0, <3>1, <4>2 DEF HoldsWhile, SessionAt
    <3>3. CASE step[r] \notin Holding
      BY <1>0, <3>1, <3>3, StepNames DEF HoldsWhile, SessionAt
    <3> QED
      BY <3>2, <3>3
  <2> QED
    BY <2>1, <2>2
<1>3. PairsInPlace'
  <2>1. \A p \in Pair :
            (\E i \in DOMAIN available : available[i] = p) => Drained(p) /\ p # held[c]
    BY <1>0 DEF PairsInPlace
  <2>2. \A p \in Pair : Drained(p) /\ p # held[c] => Drained(p)'
    BY DEF Drained, OnlyOn
  <2> QED
    BY <1>0, <2>1, <2>2 DEF PairsInPlace, poolVars
<1>4. NoLostWakeup'
  <2>1. step[c] \notin {"take", "notify", "wait"} /\ label \notin {"take", "notify", "wait"}
    BY StepNames
  <2>2. Cardinality(Awake)' = Cardinality(Awake)
    BY <1>0, <2>1, AwakeCount
  <2>3. (\E r \in Caller : step'[r] = "wait") => \E r \in Caller : step[r] = "wait"
    BY <1>0, <2>1 DEF PoolTyped
  <2> QED
    BY <1>0, <2>2, <2>3 DEF NoLostWakeup, Awake, poolVars
<1> QED
  BY <1>1, <1>2, <1>3, <1>4 DEF PoolInv

\* Work queued on a pair is on no other, and behind what was queued there.
LEMMA QueuedOnOwn ==
    ASSUME PoolTyped, NEW p \in Pair, NEW work
    PROVE  /\ UNCHANGED <<compute, transfer>> => OnlyOn(p)
           /\ compute' = Queued(compute, p, work) /\ UNCHANGED transfer =>
                  OnlyOn(p) /\ (compute[p] = <<>> => compute'[p] = <<work>>)
           /\ transfer' = Queued(transfer, p, work) /\ UNCHANGED compute => OnlyOn(p)
<1>1. Append(<<>>, work) = <<work>>
  OBVIOUS
<1> QED
  BY <1>1 DEF Queued, PoolTyped, OnlyOn

\* Every step of a session keeps the invariant.
LEMMA SessionSteps ==
    ASSUME PoolInv, NEW c \in Caller,
           \/ Alloc(c) \/ BuildFails(c) \/ Upload(c) \/ Launch(c) \/ PollComplete(c)
           \/ KernelTimeout(c) \/ SignalExit(c) \/ WaitExit(c) \/ CallFails(c)
           \/ DropSignal(c) \/ DropSignalFails(c) \/ DropJoin(c) \/ DropJoinFails(c)
           \/ SyncContext(c) \/ Free(c)
    PROVE  PoolInv'
<1>0. PoolTyped /\ HoldsWhile(c) /\ SessionAt(c)
  BY DEF PoolInv
<1>a. ASSUME NEW label, step' = [step EXCEPT ![c] = label] PROVE step'[c] = label
  BY <1>0, <1>a DEF PoolTyped
<1>p. ASSUME step[c] \in Holding PROVE held[c] \in Pair
  BY <1>0, <1>p DEF HoldsWhile
<1>1. CASE Alloc(c)
  <2>1. /\ step[c] = "alloc" /\ step' = [step EXCEPT ![c] = "settle"]
        /\ compute' = Queued(compute, held[c], "init")
        /\ UNCHANGED <<held, poolVars, transfer, mail>>
    BY <1>1 DEF Alloc, Become, callVars
  <2>2. step[c] \in Holding /\ "settle" \in Holding
    BY <2>1, StepNames
  <2>3. held[c] \in Pair /\ step'[c] = "settle"
    BY <1>a, <1>p, <2>1, <2>2
  <2>4. OnlyOn(held[c]) /\ compute'[held[c]] = <<"init">> /\ transfer'[held[c]] = <<>>
    BY <1>0, <2>1, <2>3, QueuedOnOwn DEF SessionAt
  <2>5. SessionAt(c)'
    BY <2>1, <2>3, <2>4 DEF SessionAt
  <2> QED
    BY <2>1, <2>2, <2>4, <2>5, SessionStep
<1>2. CASE BuildFails(c)
  <2>1. /\ step[c] \in {"alloc", "settle"} /\ step' = [step EXCEPT ![c] = "free"]
        /\ \/ compute' = compute
           \/ step[c] = "alloc" /\ compute' = Queued(compute, held[c], "init")
        /\ UNCHANGED <<held, poolVars, transfer, mail>>
    BY <1>2 DEF BuildFails, Become, callVars
  <2>2. step[c] \in Holding /\ "free" \in Holding
    BY <2>1, StepNames
  <2>3. held[c] \in Pair /\ step'[c] = "free"
    BY <1>a, <1>p, <2>1, <2>2
  <2>4. compute[held[c]] \in {<<>>, <<"init">>} /\ transfer'[held[c]] = <<>>
    BY <1>0, <2>1 DEF SessionAt
  <2>5. CASE compute' = compute
    <3>1. OnlyOn(held[c]) /\ compute'[held[c]] = compute[held[c]]
      BY <1>0, <2>1, <2>3, <2>5, QueuedOnOwn
    <3>2. SessionAt(c)'
      BY <2>1, <2>3, <2>4, <3>1 DEF SessionAt
    <3> QED
      BY <2>1, <2>2, <3>1, <3>2, SessionStep
  <2>6. CASE step[c] = "alloc" /\ compute' = Queued(compute, held[c], "init")
    <3>1. OnlyOn(held[c]) /\ compute'[held[c]] = <<"init">>
      BY <1>0, <2>1, <2>3, <2>6, QueuedOnOwn DEF SessionAt
    <3>2. SessionAt(c)'
      BY <2>1, <2>3, <2>4, <3>1 DEF SessionAt
    <3> QED
      BY <2>1, <2>2, <3>1, <3>2, SessionStep
  <2> QED
    BY <2>1, <2>5, <2>6
<1>3. CASE Upload(c)
  <2>1. /\ step[c] = "settle" /\ step' = [step EXCEPT ![c] = "launch"]
        /\ compute[held[c]] = <<>>
        /\ transfer' = [transfer EXCEPT ![held[c]] = @ \o Uploads(c)]
        /\ UNCHANGED <<held, poolVars, compute, mail>>
    BY <1>3 DEF Upload, Become, callVars
  <2>2. step[c] \in Holding /\ "launch" \in Holding
    BY <2>1, StepNames
  <2>3. held[c] \in Pair /\ step'[c] = "launch"
    BY <1>a, <1>p, <2>1, <2>2
  <2>4. transfer[held[c]] = <<>> /\ Uploads(c) \in {<<"upload">>, <<"upload", "arm">>}
    BY <1>0, <2>1 DEF SessionAt, Uploads
  <2>5. transfer'[held[c]] \in {<<"upload">>, <<"upload", "arm">>} /\ OnlyOn(held[c])
    <3>1. transfer'[held[c]] = <<>> \o Uploads(c) /\ OnlyOn(held[c])
      BY <1>0, <2>1, <2>3, <2>4 DEF PoolTyped, OnlyOn
    <3>2. <<>> \o <<"upload">> = <<"upload">> /\ <<>> \o <<"upload", "arm">> = <<"upload", "arm">>
      OBVIOUS
    <3> QED
      BY <2>4, <3>1, <3>2
  <2>6. SessionAt(c)'
    BY <2>1, <2>3, <2>5 DEF SessionAt
  <2> QED
    BY <2>1, <2>2, <2>5, <2>6, SessionStep
<1>4. CASE Launch(c)
  <2>1. /\ step[c] = "launch" /\ step' = [step EXCEPT ![c] = "poll"]
        /\ compute' = Queued(compute, held[c], "kernel")
        /\ UNCHANGED <<held, poolVars, transfer, mail>>
    BY <1>4 DEF Launch, Become
  <2>2. step[c] \in Holding /\ "poll" \in Holding
    BY <2>1, StepNames
  <2>3. held[c] \in Pair /\ step'[c] = "poll"
    BY <1>a, <1>p, <2>1, <2>2
  <2>4. OnlyOn(held[c]) /\ compute'[held[c]] = <<"kernel">>
    BY <1>0, <2>1, <2>3, QueuedOnOwn DEF SessionAt
  <2>5. SessionAt(c)'
    <3>1. /\ transfer[held[c]] \in {<<>>, <<"arm">>, <<"upload">>, <<"upload", "arm">>}
          /\ \/ transfer[held[c]] \in {<<"upload">>, <<"upload", "arm">>}
             \/ mail[held[c]].ready \/ mail[held[c]].complete
      BY <1>0, <2>1, Zenon DEF SessionAt
    <3> QED
      BY <2>1, <2>3, <2>4, <3>1 DEF SessionAt
  <2> QED
    BY <2>1, <2>2, <2>4, <2>5, SessionStep
<1>5. ASSUME NEW label \in {"signal", "join", "drop", "drop join", "drop context", "drain"},
             step[c] \in Holding, step' = [step EXCEPT ![c] = label],
             UNCHANGED <<held, poolVars, mail>>,
             \/ UNCHANGED <<compute, transfer>>
             \/ \E work : compute' = Queued(compute, held[c], work) /\ UNCHANGED transfer
             \/ \E work : transfer' = Queued(transfer, held[c], work) /\ UNCHANGED compute
      PROVE  PoolInv'
  <2>1. label \in Holding
    BY StepNames
  <2>2. held[c] \in Pair /\ step'[c] = label
    BY <1>a, <1>p, <1>5
  <2>3. SessionAt(c)'
    BY <2>2 DEF SessionAt
  <2>4. OnlyOn(held[c])
    BY <1>0, <1>5, <2>2, QueuedOnOwn
  <2> QED
    BY <1>5, <2>1, <2>3, <2>4, SessionStep
<1>6. CASE PollComplete(c) \/ KernelTimeout(c) \/ SignalExit(c) \/ WaitExit(c)
           \/ DropSignal(c) \/ DropSignalFails(c) \/ DropJoinFails(c)
  BY <1>5, <1>6, StepNames
     DEF PollComplete, KernelTimeout, SignalExit, WaitExit, DropSignal, DropSignalFails,
         DropJoinFails, Become, callVars, queueVars
<1>7. CASE CallFails(c)
  BY <1>5, <1>7, StepNames DEF CallFails, Become, callVars
<1>8. CASE Free(c)
  BY <1>5, <1>8, StepNames DEF Free, Become, callVars
<1>9. CASE DropJoin(c) \/ SyncContext(c)
  <2>1. /\ step[c] \in Holding /\ step' = [step EXCEPT ![c] = "free"]
        /\ UNCHANGED <<held, poolVars, mail, compute, transfer>>
    BY <1>9, StepNames DEF DropJoin, SyncContext, Become, callVars, queueVars
  <2>2. held[c] \in Pair /\ step'[c] = "free" /\ "free" \in Holding
    BY <1>a, <1>p, <2>1, StepNames
  <2>3. Drained(held[c]) /\ OnlyOn(held[c])
    BY <1>0, <1>9, <2>1, <2>2, QueuedOnOwn DEF DropJoin, SyncContext
  <2>4. SessionAt(c)'
    BY <2>1, <2>2, <2>3 DEF SessionAt, Drained
  <2> QED
    BY <2>1, <2>2, <2>3, <2>4, SessionStep
<1> QED
  BY <1>1, <1>2, <1>3, <1>4, <1>6, <1>7, <1>8, <1>9

-----------------------------------------------------------------------------
(* Steps at the pool. *)

\* Callers go to steps without a pair, or abort, and a sleeper is accounted for.
LEMMA PairlessStep ==
    ASSUME PoolInv, step' \in [Caller -> Steps],
           UNCHANGED <<held, poolVars, queueVars>>,
           \A r \in Caller : \/ step'[r] = step[r]
                             \/ step'[r] = "aborted"
                             \/ step'[r] \notin Holding /\ held[r] = NoPair,
           NoLostWakeup'
    PROVE  PoolInv'
<1>1. /\ PoolTyped /\ PairsInPlace
      /\ \A r \in Caller : HoldsWhile(r) /\ SessionAt(r)
  BY DEF PoolInv
<1>2. PoolTyped'
  BY <1>1 DEF PoolTyped, poolVars, queueVars
<1>3. ASSUME NEW r \in Caller PROVE HoldsWhile(r)' /\ SessionAt(r)'
  <2>1. CASE step'[r] = step[r]
    BY <1>1, <2>1 DEF HoldsWhile, SessionAt, queueVars
  <2>2. CASE step'[r] = "aborted" \/ (step'[r] \notin Holding /\ held[r] = NoPair)
    BY <1>1, <2>2, StepNames DEF HoldsWhile, SessionAt
  <2> QED
    BY <2>1, <2>2
<1>4. PairsInPlace'
  BY <1>1 DEF PairsInPlace, Drained, poolVars, queueVars
<1> QED
  BY <1>2, <1>3, <1>4 DEF PoolInv

\* Waiting and waking lose no wakeup.
LEMMA WaitingSteps ==
    ASSUME PoolInv, NEW c \in Caller,
           PlanEnds(c) \/ Wait(c) \/ SpuriousWake(c) \/ Notify(c) \/ Abort(c)
    PROVE  PoolInv'
<1>0. PoolTyped /\ HoldsWhile(c) /\ NoLostWakeup
  BY DEF PoolInv
<1>s. available \in Seq(Pair)
  BY <1>0 DEF PoolTyped
<1>n. Len(available) \in Nat
  BY <1>s
<1>1. CASE PlanEnds(c)
  <2>1. /\ step[c] = "call" /\ step' = [step EXCEPT ![c] = "done"]
        /\ UNCHANGED <<held, poolVars, queueVars>> /\ held[c] = NoPair
    BY <1>0, <1>1, StepNames DEF PlanEnds, Become, callVars, HoldsWhile
  <2>2. Awake' = Awake
    BY <1>0, <2>1 DEF Awake, PoolTyped
  <2>3. NoLostWakeup'
    BY <1>0, <2>1, <2>2 DEF NoLostWakeup, Awake, PoolTyped, poolVars
  <2> QED
    BY <1>0, <2>1, <2>3, StepNames, PairlessStep DEF PoolTyped, Steps
<1>2. CASE Wait(c)
  <2>1. /\ step[c] \in {"call", "take"} /\ step' = [step EXCEPT ![c] = "wait"]
        /\ available = <<>>
        /\ UNCHANGED <<held, poolVars, queueVars>> /\ held[c] = NoPair
    BY <1>0, <1>2, StepNames DEF Wait, Become, callVars, HoldsWhile
  <2>2. Len(available') = 0
    BY <2>1 DEF poolVars
  <2>3. NoLostWakeup'
    BY <2>2, AwakeFinite DEF NoLostWakeup, Awake
  <2> QED
    BY <1>0, <2>1, <2>3, StepNames, PairlessStep DEF PoolTyped, Steps
<1>3. CASE SpuriousWake(c)
  <2>1. /\ step[c] = "wait" /\ step' = [step EXCEPT ![c] = "take"]
        /\ UNCHANGED <<held, poolVars, queueVars>> /\ held[c] = NoPair
    BY <1>0, <1>3, StepNames DEF SpuriousWake, Become, callVars, HoldsWhile
  <2>2. Cardinality(Awake)' = Cardinality(Awake) + 1
    BY <1>0, <2>1, AwakeCount
  <2>3. Len(available) <= Cardinality(Awake)
    BY <1>0, <2>1 DEF NoLostWakeup, Awake
  <2>4. NoLostWakeup'
    BY <1>0, <1>n, <2>1, <2>2, <2>3, AwakeFinite DEF NoLostWakeup, Awake, poolVars
  <2> QED
    BY <1>0, <2>1, <2>4, StepNames, PairlessStep DEF PoolTyped, Steps
<1>4. CASE Notify(c)
  <2>1. step[c] = "notify" /\ held[c] = NoPair /\ UNCHANGED <<held, poolVars, queueVars>>
    BY <1>0, <1>4, StepNames DEF Notify, callVars, HoldsWhile
  <2>2. CASE \A w \in Caller : step[w] # "wait"
    <3>1. step' = [step EXCEPT ![c] = "done"]
      BY <1>4, <2>2 DEF Notify, Become
    <3>2. NoLostWakeup'
      BY <1>0, <2>2, <3>1 DEF NoLostWakeup, PoolTyped
    <3> QED
      BY <1>0, <2>1, <3>1, <3>2, StepNames, PairlessStep DEF PoolTyped, Steps
  <2>3. CASE \E w \in Caller : step[w] = "wait"
    <3>1. PICK w \in Caller : step[w] = "wait" /\ step' = [step EXCEPT ![c] = "done", ![w] = "take"]
      BY <1>4, <2>3 DEF Notify
    <3>2. /\ c \in Awake /\ w \notin Awake
          /\ Awake' = (Awake \ {c}) \cup {w}
      BY <1>0, <2>1, <3>1 DEF Awake, PoolTyped
    <3>3. Cardinality(Awake)' = Cardinality(Awake)
      <4>1. IsFiniteSet(Awake \ {c}) /\ Cardinality(Awake \ {c}) = Cardinality(Awake) - 1
        BY <3>2, AwakeFinite, FS_RemoveElement
      <4>2. Cardinality((Awake \ {c}) \cup {w}) = Cardinality(Awake \ {c}) + 1
        BY <3>2, <4>1, FS_AddElement
      <4> QED
        BY <3>2, <4>1, <4>2, AwakeFinite
    <3>4. NoLostWakeup'
      BY <1>0, <2>1, <2>3, <3>3 DEF NoLostWakeup, Awake, poolVars
    <3>5. HoldsWhile(w)
      BY DEF PoolInv
    <3>6. held[w] = NoPair
      BY <3>1, <3>5, StepNames DEF HoldsWhile
    <3> QED
      BY <1>0, <2>1, <3>1, <3>4, <3>6, StepNames, PairlessStep DEF PoolTyped, Steps
  <2> QED
    BY <2>2, <2>3
<1>5. CASE Abort(c)
  <2>1. step' = [u \in Caller |-> "aborted"] /\ UNCHANGED <<held, poolVars, queueVars>>
    BY <1>5 DEF Abort, callVars
  <2>2. NoLostWakeup'
    BY <2>1 DEF NoLostWakeup
  <2> QED
    BY <2>1, <2>2, PairlessStep DEF Steps
<1> QED
  BY <1>1, <1>2, <1>3, <1>4, <1>5

\* A session's steps do not matter to the others when it takes or drops its pair.
LEMMA OtherSessions ==
    ASSUME PoolInv, NEW c \in Caller, NEW label \in Steps, NEW pair,
           step' = [step EXCEPT ![c] = label], held' = [held EXCEPT ![c] = pair],
           UNCHANGED queueVars
    PROVE  \A r \in Caller \ {c} : HoldsWhile(r)' /\ SessionAt(r)'
BY DEF PoolInv, PoolTyped, HoldsWhile, SessionAt, queueVars

\* The last pair of the pool is lent.
LEMMA TakeStep == ASSUME PoolInv, NEW c \in Caller, Take(c) PROVE PoolInv'
<1> DEFINE n == Len(available)
<1>0. PoolTyped /\ HoldsWhile(c) /\ NoLostWakeup /\ PairsInPlace
  BY DEF PoolInv
<1>1. /\ step[c] \in {"call", "take"} /\ available # <<>>
      /\ held' = [held EXCEPT ![c] = available[n]]
      /\ available' = SubSeq(available, 1, n - 1)
      /\ step' = [step EXCEPT ![c] = "alloc"]
      /\ UNCHANGED <<leaked, queueVars>>
  BY DEF Take, Become
<1>s. available \in Seq(Pair)
  BY <1>0 DEF PoolTyped
<1>2. /\ n \in Nat \ {0} /\ available[n] \in Pair /\ DOMAIN available = 1..n
      /\ available' \in Seq(Pair) /\ DOMAIN available' = 1..(n - 1)
      /\ Len(available') = n - 1
      /\ \A i \in 1..(n - 1) : available'[i] = available[i]
  <2>1. n \in Nat \ {0} /\ DOMAIN available = 1..n /\ \A i \in 1..n : available[i] \in Pair
    BY <1>1, <1>s, EmptySeq, LenProperties
  <2>0. \A k \in Nat \ {0} : k - 1 \in Nat
    OBVIOUS
  <2> HIDE DEF n
  <2>2. PICK m \in Nat : m = n - 1
    BY <2>0, <2>1
  <2>3. \A i \in 1..m : available[i] \in Pair
    BY <2>1, <2>2
  <2>4. available' = SubSeq(available, 1, m)
    BY <1>1, <2>2 DEF n
  <2>5. /\ available' \in Seq(Pair)
        /\ Len(available') = IF 1 <= m THEN m - 1 + 1 ELSE 0
        /\ \A i \in 1..(m - 1 + 1) : available'[i] = available[1 + i - 1]
    BY <2>3, <2>4, SubSeqProperties
  <2>6. m - 1 + 1 = m /\ \A i \in 1..m : 1 + i - 1 = i
    OBVIOUS
  <2>7. Len(available') = m
    BY <2>5, <2>6
  <2>8. \A i \in 1..m : available'[i] = available[i]
    BY <2>5, <2>6
  <2>9. n - 1 = m /\ DOMAIN available' = 1..m
    BY <2>2, <2>5, <2>7, LenProperties
  <2> QED
    BY <2>1, <2>5, <2>7, <2>8, <2>9
<1>3. held[c] = NoPair
  BY <1>0, <1>1, StepNames DEF HoldsWhile
<1>4. PoolTyped'
  BY <1>0, <1>1, <1>2 DEF PoolTyped, Steps, queueVars
<1>5. Drained(available[n])
  BY <1>0, <1>2 DEF PairsInPlace
<1>6. HoldsWhile(c)' /\ SessionAt(c)'
  <2>1. step'[c] = "alloc" /\ held'[c] = available[n]
    BY <1>0, <1>1 DEF PoolTyped
  <2>2. compute'[held'[c]] = <<>> /\ transfer'[held'[c]] = <<>>
    BY <1>1, <1>5, <2>1 DEF Drained, queueVars
  <2> QED
    BY <1>2, <2>1, <2>2, StepNames DEF HoldsWhile, SessionAt
<1>7. \A r \in Caller : HoldsWhile(r)' /\ SessionAt(r)'
  BY <1>1, <1>6, OtherSessions DEF Steps
<1>8. PairsInPlace'
  <2>1. \A r \in Caller : held'[r] = IF r = c THEN available[n] ELSE held[r]
    BY <1>0, <1>1 DEF PoolTyped
  <2>2. \A r \in Caller : held[r] # available[n]
    BY <1>0, <1>2 DEF PairsInPlace
  <2>3. \A p \in Pair : (\E i \in DOMAIN available' : available'[i] = p)
                        <=> p # available[n] /\ \E i \in DOMAIN available : available[i] = p
    BY <1>0, <1>2 DEF PairsInPlace
  <2>4. \A p \in Pair : Drained(p) => Drained(p)'
    BY <1>1 DEF Drained, queueVars
  <2>5. \A i, k \in DOMAIN available' : available'[i] = available'[k] => i = k
    BY <1>0, <1>2 DEF PairsInPlace
  <2>6. \A r, u \in Caller : held'[r] # NoPair /\ held'[r] = held'[u] => r = u
    BY <1>0, <2>1, <2>2 DEF PairsInPlace
  <2>7. ASSUME NEW p \in Pair
        PROVE  LET pooled == \E i \in DOMAIN available' : available'[i] = p
                   out    == \E r \in Caller : held'[r] = p
               IN  /\ pooled => Drained(p)' /\ ~out /\ p \notin leaked'
                   /\ out => p \notin leaked'
                   /\ pooled \/ out \/ p \in leaked'
    <3>1. CASE p = available[n]
      BY <1>0, <1>1, <1>2, <2>1, <2>3, <3>1 DEF PairsInPlace
    <3>2. CASE p # available[n]
      <4>1. (\E r \in Caller : held'[r] = p) <=> \E r \in Caller : held[r] = p
        BY <1>3, <2>1, <3>2, PoolAssumption
      <4> QED
        BY <1>0, <1>1, <2>3, <2>4, <3>2, <4>1 DEF PairsInPlace
    <3> QED
      BY <3>1, <3>2
  <2> QED
    BY <2>5, <2>6, <2>7 DEF PairsInPlace
<1>9. NoLostWakeup'
  <2>1. Cardinality(Awake)' >= Cardinality(Awake) - 1
    <3>1. Awake' = Awake \ {c}
      BY <1>0, <1>1 DEF Awake, PoolTyped
    <3>2. CASE c \in Awake
      BY <3>1, <3>2, AwakeFinite, FS_RemoveElement
    <3>3. CASE c \notin Awake
      <4>1. Awake' = Awake
        BY <3>1, <3>3
      <4> QED
        BY <4>1, AwakeFinite
    <3> QED
      BY <3>2, <3>3
  <2>2. (\E r \in Caller : step'[r] = "wait") => \E r \in Caller : step[r] = "wait"
    BY <1>0, <1>1 DEF PoolTyped
  <2> QED
    BY <1>0, <1>2, <2>1, <2>2, AwakeFinite DEF NoLostWakeup, Awake
<1> QED
  BY <1>4, <1>7, <1>8, <1>9 DEF PoolInv

\* A pair goes back to the pool, or is lost.
LEMMA DrainSteps == ASSUME PoolInv, NEW c \in Caller, Drain(c) \/ DrainFails(c) PROVE PoolInv'
<1> DEFINE n == Len(available)
<1>0. PoolTyped /\ HoldsWhile(c) /\ NoLostWakeup /\ PairsInPlace
  BY DEF PoolInv
<1>1. /\ step[c] = "drain" /\ held' = [held EXCEPT ![c] = NoPair] /\ UNCHANGED queueVars
      /\ \/ /\ Drained(held[c]) /\ available' = Append(available, held[c])
            /\ step' = [step EXCEPT ![c] = "notify"] /\ leaked' = leaked
         \/ /\ leaked' = leaked \cup {held[c]} /\ available' = available
            /\ step' = [step EXCEPT ![c] = "done"]
  BY DEF Drain, DrainFails, Become
<1>2. held[c] \in Pair
  BY <1>0, <1>1, StepNames DEF HoldsWhile
<1>s. available \in Seq(Pair)
  BY <1>0 DEF PoolTyped
<1>3. n \in Nat /\ DOMAIN available = 1..n
  BY <1>s
<1>4. PoolTyped'
  <2>0. leaked \in SUBSET Pair
    BY <1>0 DEF PoolTyped
  <2>1. available' \in Seq(Pair)
    <3>1. Append(available, held[c]) \in Seq(Pair)
      BY <1>2, <1>s, AppendProperties
    <3>2. QED
      BY <1>1, <1>s, <3>1
  <2>2. leaked' \in SUBSET Pair
    BY <1>1, <1>2, <2>0
  <2>3. step' \in [Caller -> Steps] /\ held' \in [Caller -> Pair \cup {NoPair}]
    BY <1>0, <1>1 DEF PoolTyped, Steps
  <2> QED
    BY <1>0, <1>1, <2>1, <2>2, <2>3 DEF PoolTyped, queueVars
<1>5. HoldsWhile(c)' /\ SessionAt(c)'
  <2>1. step'[c] \in {"notify", "done"} /\ held'[c] = NoPair
    BY <1>0, <1>1 DEF PoolTyped
  <2> QED
    BY <2>1, StepNames DEF HoldsWhile, SessionAt
<1>6. \A r \in Caller : HoldsWhile(r)' /\ SessionAt(r)'
  BY <1>1, <1>5, OtherSessions DEF Steps
<1>7. PairsInPlace'
  <2>1. \A r \in Caller : held'[r] = IF r = c THEN NoPair ELSE held[r]
    BY <1>0, <1>1 DEF PoolTyped
  <2>2. \A p \in Pair : Drained(p) => Drained(p)'
    BY <1>1 DEF Drained, queueVars
  <2>3. \A r, u \in Caller : held'[r] # NoPair /\ held'[r] = held'[u] => r = u
    BY <1>0, <2>1 DEF PairsInPlace
  <2>4. \A p \in Pair : (\E r \in Caller : held'[r] = p)
                        <=> p # held[c] /\ \E r \in Caller : held[r] = p
    BY <1>0, <1>2, <2>1, PoolAssumption DEF PairsInPlace
  <2>5. /\ held[c] \notin leaked
        /\ \A i \in DOMAIN available : available[i] # held[c]
    BY <1>0, <1>2 DEF PairsInPlace
  <2>6. CASE Drained(held[c]) /\ available' = Append(available, held[c]) /\ leaked' = leaked
    <3>1. /\ DOMAIN available' = 1..(n + 1) /\ available'[n + 1] = held[c]
          /\ \A i \in 1..n : available'[i] = available[i]
      BY <1>2, <1>s, <2>6
    <3>2. \A i, k \in DOMAIN available' : available'[i] = available'[k] => i = k
      BY <1>0, <1>3, <2>5, <3>1 DEF PairsInPlace
    <3>3. \A p \in Pair : (\E i \in DOMAIN available' : available'[i] = p)
                          <=> p = held[c] \/ \E i \in DOMAIN available : available[i] = p
      BY <1>3, <3>1
    <3> QED
      BY <1>0, <2>2, <2>3, <2>4, <2>5, <2>6, <3>2, <3>3 DEF PairsInPlace
  <2>7. CASE leaked' = leaked \cup {held[c]} /\ available' = available
    BY <1>0, <2>2, <2>3, <2>4, <2>5, <2>7 DEF PairsInPlace
  <2> QED
    BY <1>1, <2>6, <2>7
<1>8. NoLostWakeup'
  <2>1. (\E r \in Caller : step'[r] = "wait") => \E r \in Caller : step[r] = "wait"
    BY <1>0, <1>1 DEF PoolTyped
  <2>2. CASE available' = Append(available, held[c]) /\ step' = [step EXCEPT ![c] = "notify"]
    <3>1. Len(available') = n + 1
      BY <1>2, <1>s, <2>2
    <3>2. Cardinality(Awake)' = Cardinality(Awake) + 1
      BY <1>0, <1>1, <2>2, AwakeCount
    <3> QED
      BY <1>0, <1>3, <2>1, <3>1, <3>2, AwakeFinite DEF NoLostWakeup, Awake
  <2>3. CASE available' = available /\ step' = [step EXCEPT ![c] = "done"]
    <3>1. Cardinality(Awake)' = Cardinality(Awake)
      BY <1>0, <1>1, <2>3, AwakeCount
    <3> QED
      BY <1>0, <2>1, <2>3, <3>1 DEF NoLostWakeup, Awake
  <2> QED
    BY <1>1, <2>2, <2>3
<1> QED
  BY <1>4, <1>6, <1>7, <1>8 DEF PoolInv

-----------------------------------------------------------------------------
(* The device. *)

\* What the device does on a pair is done for the session that holds it.
LEMMA DeviceStep ==
    ASSUME PoolInv, NEW p \in Pair, ~Drained(p), OnlyOn(p),
           UNCHANGED <<step, held, poolVars>>,
           PoolTyped', \A q \in Pair \ {p} : mail'[q] = mail[q],
           \A r \in Caller : held[r] = p /\ step[r] \in Holding => SessionAt(r)'
    PROVE  PoolInv'
<1>1. /\ PoolTyped /\ PairsInPlace /\ NoLostWakeup
      /\ \A r \in Caller : HoldsWhile(r) /\ SessionAt(r)
  BY DEF PoolInv
<1>2. ASSUME NEW r \in Caller PROVE HoldsWhile(r)' /\ SessionAt(r)'
  <2>1. HoldsWhile(r)'
    BY <1>1 DEF HoldsWhile
  <2>2. CASE step[r] \notin Holding
    BY <2>1, <2>2, StepNames DEF SessionAt
  <2>3. CASE step[r] \in Holding /\ held[r] # p
    <3>1. held[r] \in Pair \ {p}
      BY <1>1, <2>3 DEF HoldsWhile
    <3>2. /\ compute'[held[r]] = compute[held[r]] /\ transfer'[held[r]] = transfer[held[r]]
          /\ mail'[held[r]] = mail[held[r]]
      BY <3>1 DEF OnlyOn
    <3> QED
      BY <1>1, <2>1, <3>2 DEF SessionAt
  <2> QED
    BY <2>1, <2>2, <2>3
<1>3. PairsInPlace'
  <2>1. \A q \in Pair : (\E i \in DOMAIN available : available[i] = q) => Drained(q) /\ q # p
    BY <1>1 DEF PairsInPlace
  <2>2. \A q \in Pair : Drained(q) /\ q # p => Drained(q)'
    BY DEF Drained, OnlyOn
  <2> QED
    BY <1>1, <2>1, <2>2 DEF PairsInPlace, poolVars
<1>4. NoLostWakeup'
  BY <1>1 DEF NoLostWakeup, poolVars
<1> QED
  BY <1>2, <1>3, <1>4 DEF PoolInv

\* Only the letters of the pair change, and one queue of it loses its head.
LEMMA DeviceSteps ==
    ASSUME PoolInv, NEW p \in Pair, RunsCompute(p) \/ RunTransfer(p)
    PROVE  PoolInv'
<1>0. PoolTyped /\ \A r \in Caller : SessionAt(r)
  BY DEF PoolInv
<1>t. /\ Tail(<<"init">>) = <<>> /\ Tail(<<"kernel">>) = <<>> /\ Tail(<<"arm">>) = <<>>
      /\ Tail(<<"upload">>) = <<>> /\ Tail(<<"upload", "arm">>) = <<"arm">>
  OBVIOUS
<1>h. /\ Head(<<"init">>) = "init" /\ Head(<<"kernel">>) = "kernel" /\ Head(<<"arm">>) = "arm"
      /\ Head(<<"upload">>) = "upload" /\ Head(<<"upload", "arm">>) = "upload"
  OBVIOUS
<1>1. CASE RunCompute(p)
  <2>1. /\ compute[p] # <<>> /\ Head(compute[p]) \in {"init", "free"}
        /\ compute' = [compute EXCEPT ![p] = Tail(@)]
        /\ mail' = mail \/ mail' = [mail EXCEPT ![p] = NoMail]
        /\ UNCHANGED <<step, held, poolVars, transfer>>
    BY <1>1 DEF RunCompute, Head1, Pop, callVars
  <2>2. OnlyOn(p) /\ ~Drained(p) /\ compute'[p] = Tail(compute[p])
    BY <1>0, <2>1 DEF OnlyOn, Drained, PoolTyped
  <2>3. PoolTyped' /\ \A q \in Pair \ {p} : mail'[q] = mail[q]
    <3>1. mail \in [Pair -> Letters] /\ NoMail \in Letters
      BY <1>0 DEF PoolTyped, Letters, NoMail
    <3>2. mail' \in [Pair -> Letters] /\ \A q \in Pair \ {p} : mail'[q] = mail[q]
      BY <2>1, <3>1
    <3> QED
      BY <1>0, <2>1, <2>2, <3>2 DEF PoolTyped, poolVars, OnlyOn
  <2>4. ASSUME NEW r \in Caller, held[r] = p, step[r] \in Holding PROVE SessionAt(r)'
    <3>1. step[r] \notin {"alloc", "launch", "poll"}
      BY <1>0, <1>h, <2>1, <2>4 DEF SessionAt
    <3>2. step[r] \in {"settle", "free"} =>
              compute[p] \in {<<>>, <<"init">>} /\ transfer[p] = <<>>
      BY <1>0, <2>4 DEF SessionAt
    <3>3. step[r] \in {"settle", "free"} => compute'[p] = <<>> /\ transfer'[p] = <<>>
      BY <1>t, <2>1, <2>2, <3>2
    <3>4. step'[r] = step[r] /\ held'[r] = p
      BY <2>1, <2>4
    <3> QED
      BY <3>1, <3>3, <3>4 DEF SessionAt
  <2> QED
    BY <2>1, <2>2, <2>3, <2>4, DeviceStep
<1>2. CASE KernelModel(p)
  <2>1. /\ compute[p] # <<>>
        /\ mail' = [mail EXCEPT ![p].ready = FALSE, ![p].complete = TRUE]
        /\ UNCHANGED <<step, held, poolVars, compute, transfer>>
    BY <1>2 DEF KernelModel, Head1, callVars
  <2>2. OnlyOn(p) /\ ~Drained(p)
    BY <1>0, <2>1 DEF OnlyOn, Drained, PoolTyped
  <2>3. /\ PoolTyped' /\ \A q \in Pair \ {p} : mail'[q] = mail[q]
        /\ mail'[p].complete
    <3>1. mail[p] \in Letters
      BY <1>0 DEF PoolTyped
    <3>2. [mail[p] EXCEPT !.ready = FALSE, !.complete = TRUE] \in Letters
      BY <3>1 DEF Letters
    <3>3. mail' = [mail EXCEPT ![p] = [mail[p] EXCEPT !.ready = FALSE, !.complete = TRUE]]
      BY <2>1
    <3>4. mail'[p] = [mail[p] EXCEPT !.ready = FALSE, !.complete = TRUE]
      BY <1>0, <3>3 DEF PoolTyped
    <3>5. mail'[p].complete
      BY <3>1, <3>4 DEF Letters
    <3> QED
      BY <1>0, <2>1, <3>2, <3>3, <3>5 DEF PoolTyped, poolVars
  <2>4. ASSUME NEW r \in Caller, held[r] = p, step[r] \in Holding PROVE SessionAt(r)'
    BY <1>0, <2>1, <2>3, <2>4, Zenon DEF SessionAt
  <2> QED
    BY <2>1, <2>2, <2>3, <2>4, DeviceStep
<1>3. CASE KernelLeaves(p)
  <2>1. /\ compute[p] # <<>> /\ Head(compute[p]) = "kernel"
        /\ compute' = [compute EXCEPT ![p] = Tail(@)]
        /\ UNCHANGED <<step, held, poolVars, transfer, mail>>
    BY <1>3 DEF KernelLeaves, Head1, Pop, callVars
  <2>2. OnlyOn(p) /\ ~Drained(p) /\ compute'[p] = Tail(compute[p])
    BY <1>0, <2>1 DEF OnlyOn, Drained, PoolTyped
  <2>3. PoolTyped' /\ \A q \in Pair \ {p} : mail'[q] = mail[q]
    BY <1>0, <2>1, <2>2 DEF PoolTyped, poolVars, OnlyOn
  <2>4. ASSUME NEW r \in Caller, held[r] = p, step[r] \in Holding PROVE SessionAt(r)'
    <3>1. step[r] \notin {"alloc", "settle", "free", "launch"}
      BY <1>0, <1>h, <2>1, <2>4 DEF SessionAt
    <3>2. step[r] = "poll" => compute'[p] = <<>>
      BY <1>0, <1>t, <2>1, <2>2, <2>4 DEF SessionAt
    <3>3. step'[r] = step[r] /\ held'[r] = p /\ transfer'[p] = transfer[p] /\ mail'[p] = mail[p]
      BY <2>1, <2>4
    <3>4. step[r] = "poll" =>
              /\ transfer[p] \in {<<>>, <<"arm">>, <<"upload">>, <<"upload", "arm">>}
              /\ \/ transfer[p] \in {<<"upload">>, <<"upload", "arm">>}
                 \/ mail[p].ready \/ mail[p].complete
      BY <1>0, <2>4, Zenon DEF SessionAt
    <3> QED
      BY <3>1, <3>2, <3>3, <3>4 DEF SessionAt
  <2> QED
    BY <2>1, <2>2, <2>3, <2>4, DeviceStep
<1>4. CASE RunTransfer(p)
  <2>1. /\ transfer[p] # <<>>
        /\ transfer' = [transfer EXCEPT ![p] = Tail(@)]
        /\ UNCHANGED <<step, held, poolVars, compute>>
    BY <1>4 DEF RunTransfer, Pop, callVars
  <2>2. OnlyOn(p) /\ ~Drained(p) /\ transfer'[p] = Tail(transfer[p])
    BY <1>0, <2>1 DEF OnlyOn, Drained, PoolTyped
  <2>3. /\ PoolTyped' /\ \A q \in Pair \ {p} : mail'[q] = mail[q]
        /\ mail[p].ready \/ Head(transfer[p]) = "upload" => mail'[p].ready
        /\ mail[p].complete => mail'[p].complete
    <3> DEFINE work   == Head(transfer[p])
               letter == [ready    |-> mail[p].ready \/ work = "upload",
                          complete |-> mail[p].complete,
                          exit     |-> CASE work = "arm"  -> "after model"
                                         [] work = "exit" -> "abort"
                                         [] OTHER         -> mail[p].exit]
    <3>1. mail[p] \in Letters
      BY <1>0 DEF PoolTyped
    <3>3. letter \in Letters
      BY <3>1 DEF Letters
    <3>4. mail' = [mail EXCEPT ![p] = letter]
      BY <1>4 DEF RunTransfer
    <3>5. mail'[p] = letter /\ \A q \in Pair \ {p} : mail'[q] = mail[q]
      BY <1>0, <3>4 DEF PoolTyped
    <3>6. letter.ready = (mail[p].ready \/ work = "upload") /\ letter.complete = mail[p].complete
      BY Zenon
    <3>7. PoolTyped'
      BY <1>0, <2>1, <2>2, <3>3, <3>4 DEF PoolTyped, poolVars, OnlyOn
    <3> QED
      BY <3>5, <3>6, <3>7
  <2>4. ASSUME NEW r \in Caller, held[r] = p, step[r] \in Holding PROVE SessionAt(r)'
    <3>1. step[r] \notin {"alloc", "settle", "free"}
      BY <1>0, <2>1, <2>4 DEF SessionAt
    <3>2. step'[r] = step[r] /\ held'[r] = p /\ compute'[p] = compute[p]
      BY <2>1, <2>4
    <3>3. step[r] \in {"launch", "poll"} =>
              /\ transfer[p] \in {<<>>, <<"arm">>, <<"upload">>, <<"upload", "arm">>}
              /\ \/ transfer[p] \in {<<"upload">>, <<"upload", "arm">>}
                 \/ mail[p].ready \/ mail[p].complete
      BY <1>0, <2>4, Zenon DEF SessionAt
    <3>4. step[r] \in {"launch", "poll"} => transfer'[p] \in {<<>>, <<"arm">>}
      BY <1>t, <2>1, <2>2, <3>3
    <3>5. step[r] \in {"launch", "poll"} => mail'[p].ready \/ mail'[p].complete
      BY <1>h, <2>3, <3>3
    <3>6. /\ step[r] = "launch" => compute[p] = <<>>
          /\ step[r] = "poll" => compute[p] \in {<<>>, <<"kernel">>}
      BY <1>0, <2>4 DEF SessionAt
    <3> QED
      BY <3>1, <3>2, <3>4, <3>5, <3>6 DEF SessionAt
  <2> QED
    BY <2>1, <2>2, <2>3, <2>4, DeviceStep
<1> QED
  BY <1>1, <1>2, <1>3, <1>4 DEF RunsCompute

-----------------------------------------------------------------------------
\* The invariant is kept by every step, and by stuttering.
LEMMA PoolInvStep == PoolInv /\ [PoolNext]_streamVars => PoolInv'
<1> SUFFICES ASSUME PoolInv, [PoolNext]_streamVars PROVE PoolInv'
  OBVIOUS
<1>1. ASSUME NEW c \in Caller, Proceed(c) \/ Misfortune(c) PROVE PoolInv'
  BY <1>1, SessionSteps, WaitingSteps, TakeStep, DrainSteps DEF Proceed, Misfortune
<1>2. ASSUME NEW p \in Pair, RunsCompute(p) \/ RunTransfer(p) PROVE PoolInv'
  BY <1>2, DeviceSteps
<1>3. CASE UNCHANGED streamVars
  BY <1>3 DEF streamVars, callVars, poolVars, queueVars, PoolInv, PoolTyped, HoldsWhile,
              SessionAt, PairsInPlace, NoLostWakeup, Drained
<1> QED
  BY <1>1, <1>2, <1>3 DEF PoolNext

\* A session of the invariant frees in order and finds its job.
LEMMA PoolInvIsSafe == PoolInv => PoolSafe /\ SessionSafe
<1> SUFFICES ASSUME PoolInv PROVE PoolSafe /\ SessionSafe
  OBVIOUS
<1>1. PoolSafe
  BY DEF PoolInv, PoolSafe
<1>2. ASSUME NEW c \in Caller, step[c] = "free"
      PROVE  /\ transfer[held[c]] = <<>>
             /\ \A i \in DOMAIN compute[held[c]] : compute[held[c]][i] # "kernel"
  <2>1. compute[held[c]] \in {<<>>, <<"init">>} /\ transfer[held[c]] = <<>>
    BY <1>2 DEF PoolInv, SessionAt
  <2> QED
    BY <2>1
<1>3. ASSUME NEW c \in Caller, step[c] = "poll", transfer[held[c]] = <<>>
      PROVE  mail[held[c]].ready \/ mail[held[c]].complete
  <2>1. \/ transfer[held[c]] \in {<<"upload">>, <<"upload", "arm">>}
        \/ mail[held[c]].ready \/ mail[held[c]].complete
    BY <1>3, Zenon DEF PoolInv, SessionAt
  <2>2. <<>> # <<"upload">> /\ <<>> # <<"upload", "arm">>
    OBVIOUS
  <2> QED
    BY <1>3, <2>1, <2>2
<1> QED
  BY <1>1, <1>2, <1>3 DEF SessionSafe

\* Whatever fails and whoever waits, for any number of callers and pairs, a pair
\* is lent to one session at a time, goes back with nothing queued on it, and no
\* caller sleeps on a pair nobody will come for.
THEOREM PoolIsSafe == PoolSpec => []PoolSafe
<1>1. PoolInit => PoolInv
  BY PoolInvInit
<1>2. PoolInv /\ [PoolNext]_streamVars => PoolInv'
  BY PoolInvStep
<1>3. PoolInv => PoolSafe
  BY PoolInvIsSafe
<1> QED
  BY <1>1, <1>2, <1>3, PTL DEF PoolSpec

\* A session's buffers are freed when no kernel runs on them and no copy into
\* them is queued, and its kernel finds the job that was uploaded.
THEOREM SessionIsSafe == PoolSpec => []SessionSafe
<1>1. PoolInit => PoolInv
  BY PoolInvInit
<1>2. PoolInv /\ [PoolNext]_streamVars => PoolInv'
  BY PoolInvStep
<1>3. PoolInv => SessionSafe
  BY PoolInvIsSafe
<1> QED
  BY <1>1, <1>2, <1>3, PTL DEF PoolSpec
=============================================================================
