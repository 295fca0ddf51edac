-------------------------- MODULE DaemonDocsProofs --------------------------
(***************************************************************************)
(* Proofs about the daemon's documents, for any number of documents and of *)
(* concurrent calls and any memory limit: no document is evicted under a   *)
(* call that works on it; and doc.edit is durable, provided no write of a  *)
(* frame fails half way (what follows a torn frame is cut off with it at   *)
(* the next start) and no state is larger than the WAL reads back (such a  *)
(* frame is refused by the reader, not by the writer); under the same      *)
(* condition, and where memory holds every document, a read returns every  *)
(* edit acknowledged before it was made.                                   *)
(***************************************************************************)
EXTENDS DaemonDocs, TLAPS, FiniteSetTheorems, WellFoundedInduction

USE DocsPos, KindsKnown, LensNat, BoundsNat, DiskErrorsBool DEF NoEtag, NoKind, NoDoc

\* A document's size is a number.
LEMMA BytesNat ==
    ASSUME NEW S \in SUBSET Calls
    PROVE  Bytes(S) \in Nat
<1>1. IsFiniteSet(S)
  BY CallsFinite, FS_Subset
<1> QED
  BY <1>1, FS_CardinalityType DEF Bytes

\* What relieving memory pressure leaves alone: a subscribed document stays
\* loaded with its content, and no document gains content.
LEMMA ManagerKeeps ==
    ASSUME NEW docs \in SUBSET Docs, NEW m \in [Docs -> SUBSET Calls],
           NEW s \in [Docs -> SUBSET Calls], NEW sizes \in [Docs -> Nat],
           NEW t \in [Docs -> Nat], ManagerBecomes(docs, m, s, sizes, t)
    PROVE  /\ loaded' \subseteq Docs
           /\ mem' \in [Docs -> SUBSET Calls]
           /\ subs' = s /\ est' \in [Docs -> Nat] /\ tick' \in [Docs -> Nat]
           /\ \A d \in docs : s[d] # {} => d \in loaded' /\ mem'[d] = m[d]
           /\ \A d \in Docs : mem'[d] \subseteq m[d]
<1>1. PICK gone \in SUBSET Unsubscribed(docs, s) :
          /\ loaded' = docs \ gone
          /\ mem' = [d \in Docs |-> IF d \in gone THEN {} ELSE m[d]]
          /\ subs' = s /\ est' = sizes /\ tick' = t
  BY DEF ManagerBecomes
<1> QED
  BY <1>1 DEF Unsubscribed

\* What the steps of DocManager promise to the calls that stay subscribed.
Keeps == \A d \in loaded : subs'[d] # {} => d \in loaded' /\ mem[d] \subseteq mem'[d]
Shrinks == \A d \in Docs : mem'[d] \subseteq mem[d]
ManagerType == /\ loaded' \subseteq Docs
               /\ mem' \in [Docs -> SUBSET Calls]
               /\ subs' \in [Docs -> SUBSET Calls]
               /\ est' \in [Docs -> Nat]
               /\ tick' \in [Docs -> Nat]
               /\ nextTick' \in Nat

\* Subscribing loads the document, counts the caller, and takes memory only
\* from documents nobody uses (subscribe_or_create).
LEMMA SubscribeFacts ==
    ASSUME TypeOK, NEW c \in Calls, NEW x \in Docs, SubscribeOrCreate(c, x)
    PROVE  /\ ManagerType /\ Keeps /\ Shrinks
           /\ subs' = [subs EXCEPT ![x] = @ \cup {c}]
           /\ x \in loaded'
<1> DEFINE s == [subs EXCEPT ![x] = @ \cup {c}]
           t == [tick EXCEPT ![x] = 0]
           z == [est EXCEPT ![x] = Bytes({})]
<1>1. s \in [Docs -> SUBSET Calls] /\ t \in [Docs -> Nat] /\ z \in [Docs -> Nat] /\ s[x] # {}
  BY BytesNat DEF TypeOK
<1>2. CASE x \in loaded /\ subs' = s /\ tick' = t /\ UNCHANGED <<loaded, mem, est>>
  BY <1>1, <1>2 DEF TypeOK, SubscribeOrCreate, ManagerType, Keeps, Shrinks
<1>3. CASE x \notin loaded /\ ManagerBecomes(loaded \cup {x}, mem, s, z, t)
  <2>1. /\ loaded' \subseteq Docs
        /\ mem' \in [Docs -> SUBSET Calls]
        /\ subs' = s /\ est' \in [Docs -> Nat] /\ tick' \in [Docs -> Nat]
        /\ \A d \in loaded \cup {x} : s[d] # {} => d \in loaded' /\ mem'[d] = mem[d]
        /\ \A d \in Docs : mem'[d] \subseteq mem[d]
    <3> HIDE DEF s, t, z
    <3>1. loaded \cup {x} \in SUBSET Docs /\ mem \in [Docs -> SUBSET Calls]
      BY DEF TypeOK
    <3> QED
      BY <1>1, <1>3, <3>1, ManagerKeeps
  <2> QED
    BY <1>1, <2>1 DEF TypeOK, SubscribeOrCreate, ManagerType, Keeps, Shrinks
<1> QED
  BY <1>2, <1>3 DEF SubscribeOrCreate

\* Unsubscribing takes back one count and evicts only documents nobody uses
\* (unsubscribe, evict_under_pressure).
LEMMA UnsubscribeFacts ==
    ASSUME TypeOK, NEW c \in Calls, NEW x \in Docs, Unsubscribe(c, x)
    PROVE  /\ ManagerType /\ Keeps /\ Shrinks
           /\ subs' = [subs EXCEPT ![x] = @ \ {c}]
<1> DEFINE s == [subs EXCEPT ![x] = @ \ {c}]
           t == [tick EXCEPT ![x] = nextTick]
<1>1. s \in [Docs -> SUBSET Calls] /\ t \in [Docs -> Nat]
  BY DEF TypeOK
<1>2. CASE subs' = s /\ UNCHANGED <<loaded, mem, est, tick, nextTick>>
  BY <1>1, <1>2 DEF TypeOK, ManagerType, Keeps, Shrinks
<1>3. CASE ManagerBecomes(loaded, mem, s, est, t) /\ nextTick' = nextTick + 1
  <2>1. /\ loaded' \subseteq Docs
        /\ mem' \in [Docs -> SUBSET Calls]
        /\ subs' = s /\ est' \in [Docs -> Nat] /\ tick' \in [Docs -> Nat]
        /\ \A d \in loaded : s[d] # {} => d \in loaded' /\ mem'[d] = mem[d]
        /\ \A d \in Docs : mem'[d] \subseteq mem[d]
    <3> HIDE DEF s, t
    <3> QED
      BY <1>1, <1>3, ManagerKeeps DEF TypeOK
  <2> QED
    BY <1>1, <1>3, <2>1 DEF TypeOK, ManagerType, Keeps, Shrinks
<1> QED
  BY <1>2, <1>3 DEF Unsubscribe

-----------------------------------------------------------------------------
(***************************************************************************)
(* UseInv is inductive.                                                    *)
(***************************************************************************)
LEMMA UseInit == Init => UseInv
BY DEF Init, UseInv, TypeOK, IdleUnseen, CallShape, InUseCounted, InUseStaysLoaded,
       PCs, InProgress, Linking

\* InUseCounted and InUseStaysLoaded, of one call.
Uses(c) ==
    pc[c] \in InProgress =>
        /\ WorksOn(c) \subseteq loaded
        /\ \A d \in WorksOn(c) : c \in subs[d]
        /\ pc[c] \in {"bump", "retag"} \cup Linking => c \in mem[doc[c]]
        /\ pc[c] = "renumber" => c \in mem[source[c]]

\* Uses gathers, call by call, what InUseCounted and InUseStaysLoaded say.
LEMMA UsesSplit == (\A c \in Calls : Uses(c)) <=> InUseCounted /\ InUseStaysLoaded
BY DEF Uses, InUseCounted, InUseStaysLoaded

\* A step of one call does not disturb what the others use.
LEMMA OthersUse ==
    ASSUME UseInv, NEW c \in Calls, NEW e \in Calls, e # c, Keeps,
           pc'[e] = pc[e], doc'[e] = doc[e], source'[e] = source[e],
           \A d \in Docs : e \in subs[d] => e \in subs'[d]
    PROVE  Uses(e)'
<1> SUFFICES ASSUME pc[e] \in InProgress
             PROVE  /\ WorksOn(e)' \subseteq loaded'
                    /\ \A d \in WorksOn(e)' : e \in subs'[d]
                    /\ pc[e] \in {"bump", "retag"} \cup Linking => e \in mem'[doc[e]]
                    /\ pc[e] = "renumber" => e \in mem'[source[e]]
  BY DEF Uses
<1>1. WorksOn(e)' = WorksOn(e)
  BY DEF WorksOn
<1>2. Uses(e)
  BY UsesSplit DEF UseInv
<1>3. WorksOn(e) \subseteq loaded /\ loaded \subseteq Docs /\ doc[e] \in WorksOn(e)
  BY <1>2 DEF Uses, UseInv, TypeOK, WorksOn
<1>4. \A d \in WorksOn(e) : e \in subs'[d] /\ d \in loaded' /\ mem[d] \subseteq mem'[d]
  BY <1>2, <1>3 DEF Uses, Keeps
<1>5. pc[e] = "renumber" => source[e] \in WorksOn(e)
  BY DEF WorksOn, Linking
<1> QED
  BY <1>1, <1>2, <1>3, <1>4, <1>5 DEF Uses

\* A new call subscribes before it does anything else.
LEMMA BeginUse ==
    ASSUME UseInv, NEW c \in Calls, NEW k \in Kinds, NEW x \in Docs, Begin(c, k, x)
    PROVE  UseInv'
<1> USE DEF Begin, Go, meta, disk, request, rename, process
<1>0. TypeOK
  BY DEF UseInv
<1>1. /\ ManagerType /\ Keeps /\ Shrinks
      /\ subs' = [subs EXCEPT ![x] = @ \cup {c}]
      /\ x \in loaded'
  BY <1>0, SubscribeFacts
<1>2. TypeOK'
  BY <1>0, <1>1 DEF TypeOK, PCs, AckedEdits, ManagerType
<1>3. IdleUnseen'
  BY <1>0, <1>1 DEF UseInv, TypeOK, IdleUnseen, Shrinks
<1>4. CallShape'
  BY <1>0 DEF UseInv, TypeOK, CallShape, PCs, InProgress, Linking
<1>5. ASSUME NEW e \in Calls PROVE Uses(e)'
  <2>1. CASE e = c
    <3>1. pc'[c] = "open" /\ doc'[c] = x
      BY <1>0 DEF TypeOK
    <3>2. WorksOn(c)' = {x}
      BY <3>1 DEF WorksOn, Linking
    <3> QED
      BY <1>0, <1>1, <2>1, <3>1, <3>2 DEF Uses, TypeOK, Linking
  <2>2. CASE e # c
    <3>1. pc'[e] = pc[e] /\ doc'[e] = doc[e] /\ source'[e] = source[e]
      BY <1>0, <2>2 DEF TypeOK
    <3>2. \A d \in Docs : e \in subs[d] => e \in subs'[d]
      BY <1>0, <1>1 DEF TypeOK
    <3> QED
      BY <1>1, <2>2, <3>1, <3>2, OthersUse
  <2> QED
    BY <2>1, <2>2
<1> QED
  BY <1>2, <1>3, <1>4, <1>5 DEF UseInv, InUseCounted, InUseStaysLoaded, Uses

\* A call unsubscribes after all it does; the others are still counted.
LEMMA EndUse ==
    ASSUME UseInv, NEW c \in Calls, End(c)
    PROVE  UseInv'
<1> USE DEF End, Go, meta, disk, request, rename, process
<1>0. TypeOK /\ doc[c] \in Docs
  BY DEF UseInv, CallShape
<1>1. /\ ManagerType /\ Keeps /\ Shrinks
      /\ subs' = [subs EXCEPT ![doc[c]] = @ \ {c}]
  BY <1>0, UnsubscribeFacts
<1>2. TypeOK'
  BY <1>0, <1>1 DEF TypeOK, PCs, ManagerType
<1>3. IdleUnseen'
  BY <1>0, <1>1 DEF UseInv, TypeOK, IdleUnseen, Shrinks
<1>4. CallShape'
  BY <1>0 DEF UseInv, TypeOK, CallShape, PCs, InProgress, Linking
<1>5. ASSUME NEW e \in Calls PROVE Uses(e)'
  <2>1. CASE e = c
    BY <1>0, <2>1 DEF Uses, InProgress, TypeOK
  <2>2. CASE e # c
    <3>1. pc'[e] = pc[e] /\ doc'[e] = doc[e] /\ source'[e] = source[e]
      BY <1>0, <2>2 DEF TypeOK
    <3>2. \A d \in Docs : e \in subs[d] => e \in subs'[d]
      BY <1>0, <1>1, <2>2 DEF TypeOK
    <3> QED
      BY <1>1, <2>2, <3>1, <3>2, OthersUse
  <2> QED
    BY <2>1, <2>2
<1> QED
  BY <1>2, <1>3, <1>4, <1>5 DEF UseInv, InUseCounted, InUseStaysLoaded, Uses

\* Rewriting links, a call subscribes to one more document.
LEMMA RelinkUse ==
    ASSUME UseInv, NEW c \in Calls, NEW x \in Docs, Relink(c, x)
    PROVE  UseInv' /\ Shrinks
<1> USE DEF Go, meta, disk, request, process
<1>0. /\ TypeOK /\ pc[c] = "relink" /\ kind[c] = "edit" /\ doc[c] \in Docs /\ Uses(c)
      /\ x \in links[c] /\ x # doc[c] /\ doc[c] \notin links[c]
      /\ UNCHANGED <<meta, disk, request, view, process>>
  BY UsesSplit DEF Relink, UseInv, CallShape, Linking
<1>1. CASE /\ SubscribeOrCreate(c, x) /\ source' = [source EXCEPT ![c] = x]
           /\ pc' = [pc EXCEPT ![c] = "rewrite"] /\ UNCHANGED <<links, result>>
  <2>1. /\ ManagerType /\ Keeps /\ Shrinks
        /\ subs' = [subs EXCEPT ![x] = @ \cup {c}]
        /\ x \in loaded'
    BY <1>0, <1>1, SubscribeFacts
  <2>2. TypeOK'
    BY <1>0, <1>1, <2>1 DEF TypeOK, PCs, ManagerType
  <2>3. IdleUnseen'
    BY <1>0, <1>1, <2>1 DEF UseInv, TypeOK, IdleUnseen, Shrinks
  <2>4. CallShape'
    BY <1>0, <1>1 DEF UseInv, TypeOK, CallShape, PCs, InProgress, Linking
  <2>5. ASSUME NEW e \in Calls PROVE Uses(e)'
    <3>1. CASE e = c
      <4>1. pc'[c] = "rewrite" /\ doc'[c] = doc[c] /\ source'[c] = x
        BY <1>0, <1>1 DEF TypeOK
      <4>2. WorksOn(c)' = {doc[c], x}
        BY <4>1 DEF WorksOn, Linking
      <4>3. doc[c] \in loaded /\ c \in subs[doc[c]] /\ c \in mem[doc[c]]
        BY <1>0 DEF Uses, WorksOn, InProgress, PCs, Linking
      <4>4. c \in subs'[doc[c]] /\ c \in subs'[x]
        BY <1>0, <2>1, <4>3 DEF TypeOK
      <4>5. doc[c] \in loaded' /\ c \in mem'[doc[c]]
        BY <2>1, <4>3, <4>4 DEF Keeps
      <4> QED
        BY <2>1, <3>1, <4>1, <4>2, <4>4, <4>5 DEF Uses, Linking
    <3>2. CASE e # c
      <4>1. pc'[e] = pc[e] /\ doc'[e] = doc[e] /\ source'[e] = source[e]
        BY <1>0, <1>1, <3>2 DEF TypeOK
      <4>2. \A d \in Docs : e \in subs[d] => e \in subs'[d]
        BY <1>0, <2>1 DEF TypeOK
      <4> QED
        BY <2>1, <3>2, <4>1, <4>2, OthersUse
    <3> QED
      BY <3>1, <3>2
  <2> QED
    BY <2>1, <2>2, <2>3, <2>4, <2>5 DEF UseInv, InUseCounted, InUseStaysLoaded, Uses
<1>2. CASE RelinkOrReturn(c, links[c] \ {x}) /\ UNCHANGED <<manager, source>>
  <2>1. /\ links' = [links EXCEPT ![c] = links[c] \ {x}]
        /\ pc' = [pc EXCEPT ![c] = pc'[c]] /\ pc'[c] \in {"relink", "close"}
        /\ result' = [result EXCEPT ![c] = result'[c]] /\ result'[c] \in {"none", "ok", "err"}
        /\ UNCHANGED <<loaded, mem, subs, est, tick, nextTick, source>>
    BY <1>0, <1>2 DEF RelinkOrReturn, Return, TypeOK, manager
  <2>2. TypeOK'
    BY <1>0, <2>1, SMTT(60) DEF TypeOK, PCs
  <2>3. IdleUnseen'
    BY <1>0, <2>1 DEF UseInv, TypeOK, IdleUnseen
  <2>4. CallShape'
    BY <1>0, <2>1 DEF UseInv, TypeOK, CallShape, PCs, InProgress, Linking
  <2>5. ASSUME NEW e \in Calls PROVE Uses(e)'
    <3>1. CASE e = c
      <4>1. WorksOn(c)' = {doc[c]}
        BY <1>0, <2>1 DEF WorksOn, Linking
      <4>2. doc[c] \in loaded /\ c \in subs[doc[c]] /\ c \in mem[doc[c]]
        BY <1>0 DEF Uses, WorksOn, InProgress, PCs, Linking
      <4> QED
        BY <1>0, <2>1, <3>1, <4>1, <4>2 DEF Uses
    <3>2. CASE e # c
      <4>1. pc'[e] = pc[e] /\ doc'[e] = doc[e] /\ source'[e] = source[e]
        BY <1>0, <2>1, <3>2 DEF TypeOK
      <4> QED
        BY <2>1, <3>2, <4>1, OthersUse DEF Keeps
    <3> QED
      BY <3>1, <3>2
  <2> QED
    BY <2>1, <2>2, <2>3, <2>4, <2>5 DEF UseInv, InUseCounted, InUseStaysLoaded, Uses, Shrinks
<1> QED
  BY <1>1, <1>2 DEF Relink

\* Done with a document, the call leaves that one and keeps its own.
LEMMA UnlinkUse ==
    ASSUME UseInv, NEW c \in Calls, Unlink(c)
    PROVE  UseInv' /\ Shrinks
<1> USE DEF Go, meta, disk, request, process
<1>0. /\ TypeOK /\ pc[c] = "unlink" /\ kind[c] = "edit" /\ doc[c] \in Docs /\ Uses(c)
      /\ source[c] \in Docs /\ source[c] # doc[c] /\ doc[c] \notin links[c]
      /\ UNCHANGED <<meta, disk, request, view, process>>
  BY UsesSplit DEF Unlink, UseInv, CallShape, Linking
<1>1. /\ ManagerType /\ Keeps /\ Shrinks
      /\ subs' = [subs EXCEPT ![source[c]] = @ \ {c}]
  BY <1>0, UnsubscribeFacts DEF Unlink
<1>2. /\ links' = [links EXCEPT ![c] = links[c] \ {source[c]}]
      /\ source' = [source EXCEPT ![c] = NoDoc]
      /\ pc' = [pc EXCEPT ![c] = pc'[c]] /\ pc'[c] \in {"relink", "close"}
      /\ result' = [result EXCEPT ![c] = result'[c]] /\ result'[c] \in {"none", "ok", "err"}
  <2>1. RelinkOrReturn(c, links[c] \ {source[c]}) /\ source' = [source EXCEPT ![c] = NoDoc]
    BY DEF Unlink
  <2>2. pc \in [Calls -> PCs] /\ result \in [Calls -> {"none", "ok", "err"}]
    BY <1>0 DEF TypeOK
  <2> QED
    BY <2>1, <2>2 DEF RelinkOrReturn, Return
<1>3. TypeOK'
  <2>1. pc' \in [Calls -> PCs] /\ result' \in [Calls -> {"none", "ok", "err"}]
    BY <1>0, <1>2, SMTT(60) DEF TypeOK, PCs
  <2>2. links' \in [Calls -> SUBSET Docs] /\ source' \in [Calls -> Docs \cup {NoDoc}]
    BY <1>0, <1>2 DEF TypeOK
  <2> QED
    BY <1>0, <1>1, <2>1, <2>2 DEF TypeOK, ManagerType
<1>4. IdleUnseen'
  BY <1>0, <1>1, <1>2 DEF UseInv, TypeOK, IdleUnseen, Shrinks
<1>5. CallShape'
  BY <1>0, <1>2 DEF UseInv, TypeOK, CallShape, PCs, InProgress, Linking
<1>6. ASSUME NEW e \in Calls PROVE Uses(e)'
  <2>1. CASE e = c
    <3>1. WorksOn(c)' = {doc[c]}
      BY <1>0, <1>2 DEF WorksOn, Linking
    <3>2. doc[c] \in loaded /\ c \in subs[doc[c]] /\ c \in mem[doc[c]]
      BY <1>0 DEF Uses, WorksOn, InProgress, PCs, Linking
    <3>3. c \in subs'[doc[c]]
      BY <1>0, <1>1, <3>2 DEF TypeOK
    <3>4. doc[c] \in loaded' /\ c \in mem'[doc[c]]
      BY <1>1, <3>2, <3>3 DEF Keeps
    <3> QED
      BY <1>0, <1>2, <2>1, <3>1, <3>3, <3>4 DEF Uses
  <2>2. CASE e # c
    <3>1. pc'[e] = pc[e] /\ doc'[e] = doc[e] /\ source'[e] = source[e]
      BY <1>0, <1>2, <2>2 DEF TypeOK
    <3>2. \A d \in Docs : e \in subs[d] => e \in subs'[d]
      BY <1>0, <1>1, <2>2 DEF TypeOK
    <3> QED
      BY <1>1, <2>2, <3>1, <3>2, OthersUse
  <2> QED
    BY <2>1, <2>2
<1> QED
  BY <1>1, <1>3, <1>4, <1>5, <1>6 DEF UseInv, InUseCounted, InUseStaysLoaded, Uses
(***************************************************************************)
(* The other steps of a call leave DocManager alone but for the content of *)
(* a document, which only grows.                                           *)
(***************************************************************************)
StepOthers(c) ==
    /\ UNCHANGED <<loaded, subs, kind, doc, source, up>>
    /\ \A e \in Calls \ {c} : /\ pc'[e] = pc[e] /\ result'[e] = result[e]
                              /\ links'[e] = links[e] /\ view'[e] = view[e]
StepGrows(c) ==
    /\ \A d \in Docs : /\ mem[d] \subseteq mem'[d]
                       /\ mem'[d] \subseteq mem[d] \cup view[c] \cup {c}
                       /\ wal'[d] \subseteq wal[d] \cup view[c]
    /\ view'[c] \subseteq view[c] \cup mem[doc[c]] \cup {c}
StepPc(c) ==
    /\ pc[c] \in InProgress /\ pc'[c] \notin {"idle", "cut"}
    /\ pc'[c] \in {"stage", "append", "apply", "bump"} \cup Linking => kind[c] = "edit"
    /\ pc'[c] \in Linking => doc[c] \notin links'[c]
    /\ pc'[c] \in Linking \ {"relink"} => pc[c] \in Linking \ {"relink"}
    /\ pc'[c] = "retag" => kind[c] = "section"
    /\ pc'[c] \in {"append", "apply"} => c \in view'[c]
    /\ pc'[c] \in {"bump", "retag"} \cup Linking => c \in mem'[doc[c]]
    /\ pc'[c] = "renumber" => c \in mem'[source[c]]

\* Such a step preserves UseInv.
LEMMA StepUse ==
    ASSUME UseInv, NEW c \in Calls, TypeOK', StepOthers(c), StepGrows(c), StepPc(c)
    PROVE  UseInv'
<1>0. /\ TypeOK /\ doc[c] \in Docs /\ Uses(c)
      /\ pc[c] \in Linking \ {"relink"} => source[c] \in Docs \ {doc[c]}
  BY UsesSplit DEF UseInv, CallShape, StepPc, InProgress
<1>1. IdleUnseen'
  <2> SUFFICES ASSUME NEW i \in Calls, pc'[i] = "idle"
               PROVE  /\ kind'[i] = NoKind /\ result'[i] = "none"
                      /\ \A d \in Docs : i \notin mem'[d] \cup subs'[d] \cup wal'[d]
                      /\ \A e \in Calls : i \notin view'[e]
    BY DEF IdleUnseen
  <2>1. i # c /\ pc[i] = "idle"
    BY DEF StepPc, StepOthers
  <2>2. /\ kind[i] = NoKind /\ result[i] = "none"
        /\ \A d \in Docs : i \notin mem[d] \cup subs[d] \cup wal[d]
        /\ \A e \in Calls : i \notin view[e]
    BY <2>1 DEF UseInv, IdleUnseen
  <2>3. \A d \in Docs : i \notin mem'[d] \cup subs'[d] \cup wal'[d]
    BY <2>1, <2>2 DEF StepGrows, StepOthers
  <2>4. \A e \in Calls : i \notin view'[e]
    <3>1. i \notin view'[c]
      BY <1>0, <2>1, <2>2 DEF StepGrows
    <3> QED
      BY <2>2, <3>1 DEF StepOthers
  <2> QED
    BY <2>1, <2>2, <2>3, <2>4 DEF StepOthers
<1>2. CallShape'
  BY <1>0 DEF UseInv, CallShape, StepOthers, StepPc
<1>3. ASSUME NEW e \in Calls PROVE Uses(e)'
  <2>1. CASE e = c
    <3>1. WorksOn(c)' \subseteq WorksOn(c)
      BY DEF WorksOn, StepPc, StepOthers
    <3> QED
      BY <1>0, <2>1, <3>1 DEF Uses, StepPc, StepOthers
  <2>2. CASE e # c
    <3>1. Keeps
      BY <1>0 DEF Keeps, StepOthers, StepGrows, TypeOK
    <3> QED
      BY <2>2, <3>1, OthersUse DEF StepOthers
  <2> QED
    BY <2>1, <2>2
<1> QED
  BY <1>1, <1>2, <1>3 DEF UseInv, InUseCounted, InUseStaysLoaded, Uses

\* UseInv is kept when doc.read takes the text.
LEMMA ReadContentUse ==
    ASSUME UseInv, NEW c \in Calls, ReadContent(c)
    PROVE  UseInv'
<1> USE DEF ReadContent, Go, Return, manager, meta, disk, request, rename, process
<1>0. TypeOK /\ doc[c] \in Docs /\ Uses(c)
  BY UsesSplit DEF UseInv, CallShape
<1>1. TypeOK'
  BY <1>0 DEF TypeOK, PCs
<1>2. StepOthers(c)
  BY <1>0 DEF StepOthers, TypeOK
<1>3. StepGrows(c)
  BY <1>0 DEF StepGrows, TypeOK
<1>4. StepPc(c)
  BY <1>0 DEF StepPc, TypeOK, UseInv, CallShape, InProgress, PCs, Linking, Uses
<1> QED
  BY <1>1, <1>2, <1>3, <1>4, StepUse

\* UseInv is kept when doc.edit refuses its parameters.
LEMMA RejectEditUse ==
    ASSUME UseInv, NEW c \in Calls, RejectEdit(c)
    PROVE  UseInv'
<1> USE DEF RejectEdit, Go, Return, manager, meta, disk, request, rename, process
<1>0. TypeOK /\ doc[c] \in Docs /\ Uses(c)
  BY UsesSplit DEF UseInv, CallShape
<1>1. TypeOK'
  BY <1>0, SMTT(60) DEF TypeOK, PCs
<1>2. StepOthers(c)
  BY <1>0 DEF StepOthers, TypeOK
<1>3. StepGrows(c)
  BY <1>0 DEF StepGrows, TypeOK
<1>4. StepPc(c)
  BY <1>0 DEF StepPc, TypeOK, UseInv, CallShape, InProgress, PCs, Linking, Uses
<1> QED
  BY <1>1, <1>2, <1>3, <1>4, StepUse

\* UseInv is kept when doc.edit compares if_etag.
LEMMA CheckEtagUse ==
    ASSUME UseInv, NEW c \in Calls, CheckEtag(c)
    PROVE  UseInv'
<1> USE DEF CheckEtag, Go, Return, manager, meta, disk, request, rename, process
<1>0. TypeOK /\ doc[c] \in Docs /\ Uses(c)
  BY UsesSplit DEF UseInv, CallShape
<1>1. TypeOK'
  BY <1>0 DEF TypeOK, PCs
<1>2. StepOthers(c)
  BY <1>0 DEF StepOthers, TypeOK
<1>3. StepGrows(c)
  BY <1>0 DEF StepGrows, TypeOK
<1>4. StepPc(c)
  BY <1>0 DEF StepPc, TypeOK, UseInv, CallShape, InProgress, PCs, Linking, Uses
<1> QED
  BY <1>1, <1>2, <1>3, <1>4, StepUse

\* UseInv is kept when doc.edit builds the staged document.
LEMMA StageDocUse ==
    ASSUME UseInv, NEW c \in Calls, StageDoc(c)
    PROVE  UseInv'
<1> USE DEF StageDoc, Go, Return, manager, meta, disk, request, rename, process
<1>0. TypeOK /\ doc[c] \in Docs /\ Uses(c)
  BY UsesSplit DEF UseInv, CallShape
<1>1. TypeOK'
  BY <1>0 DEF TypeOK, PCs
<1>2. StepOthers(c)
  BY <1>0 DEF StepOthers, TypeOK
<1>3. StepGrows(c)
  BY <1>0 DEF StepGrows, TypeOK
<1>4. StepPc(c)
  BY <1>0 DEF StepPc, TypeOK, UseInv, CallShape, InProgress, PCs, Linking, Uses
<1> QED
  BY <1>1, <1>2, <1>3, <1>4, StepUse

\* UseInv is kept when doc.edit logs the staged state.
LEMMA AppendWalUse ==
    ASSUME UseInv, NEW c \in Calls, AppendWal(c)
    PROVE  UseInv'
<1> USE DEF AppendWal, AppendFrame, Go, Return, manager, meta, disk, request, rename, process
<1>0. TypeOK /\ doc[c] \in Docs /\ Uses(c)
  BY UsesSplit DEF UseInv, CallShape
<1>1. TypeOK'
  BY <1>0 DEF TypeOK, PCs
<1>2. StepOthers(c)
  BY <1>0 DEF StepOthers, TypeOK
<1>3. StepGrows(c)
  BY <1>0 DEF StepGrows, TypeOK
<1>4. StepPc(c)
  BY <1>0 DEF StepPc, TypeOK, UseInv, CallShape, InProgress, PCs, Linking, Uses
<1> QED
  BY <1>1, <1>2, <1>3, <1>4, StepUse

\* UseInv is kept when the WAL append fails.
LEMMA AppendFailsUse ==
    ASSUME UseInv, NEW c \in Calls, AppendFails(c)
    PROVE  UseInv'
<1> USE DEF AppendFails, AppendFrame, TearFrame, WriteNothing, Go, Return, manager, meta, disk, request, rename, process
<1>0. TypeOK /\ doc[c] \in Docs /\ Uses(c)
  BY UsesSplit DEF UseInv, CallShape
<1>1. TypeOK'
  <2>1. files' \subseteq Docs /\ wal' \in [Docs -> SUBSET Calls] /\ torn' \in [Docs -> BOOLEAN]
    <3>1. view[c] \in SUBSET Calls
      BY <1>0 DEF TypeOK
    <3>2. CASE TearFrame(doc[c])
      BY <1>0, <3>2 DEF TypeOK
    <3>3. CASE AppendFrame(doc[c], view[c])
      BY <1>0, <3>1, <3>3 DEF TypeOK
    <3>4. CASE WriteNothing(doc[c])
      BY <1>0, <3>4 DEF TypeOK
    <3> QED
      BY <3>2, <3>3, <3>4
  <2>2. /\ pc' \in [Calls -> PCs] /\ result' \in [Calls -> {"none", "ok", "err"}]
        /\ UNCHANGED <<manager, meta, request, view, rename, process>>
    BY <1>0, SMTT(60) DEF TypeOK, PCs
  <2> QED
    BY <1>0, <2>1, <2>2 DEF TypeOK
<1>2. StepOthers(c)
  BY <1>0 DEF StepOthers, TypeOK
<1>3. StepGrows(c)
  BY <1>0 DEF StepGrows, TypeOK
<1>4. StepPc(c)
  BY <1>0 DEF StepPc, TypeOK, UseInv, CallShape, InProgress, PCs, Linking, Uses
<1> QED
  BY <1>1, <1>2, <1>3, <1>4, StepUse

\* UseInv is kept when doc.edit applies the staged state.
LEMMA ApplyStagedUse ==
    ASSUME UseInv, NEW c \in Calls, ApplyStaged(c)
    PROVE  UseInv'
<1> USE DEF ApplyStaged, ApplyUpdate, Go, Return, manager, meta, disk, request, rename, process
<1>0. TypeOK /\ doc[c] \in Docs /\ Uses(c)
  BY UsesSplit DEF UseInv, CallShape
<1>1. TypeOK'
  BY <1>0 DEF TypeOK, PCs
<1>2. StepOthers(c)
  BY <1>0 DEF StepOthers, TypeOK
<1>3. StepGrows(c)
  BY <1>0 DEF StepGrows, TypeOK
<1>4. StepPc(c)
  BY <1>0 DEF StepPc, TypeOK, UseInv, CallShape, InProgress, PCs, Linking, Uses
<1> QED
  BY <1>1, <1>2, <1>3, <1>4, StepUse

\* UseInv is kept when doc.edit counts up head_seq.
LEMMA BumpHeadUse ==
    ASSUME UseInv, NEW c \in Calls, BumpHead(c)
    PROVE  UseInv'
<1> USE DEF BumpHead, NextHead, RelinkOrReturn, Go, Return, manager, meta, disk, request, rename, process
<1>0. TypeOK /\ doc[c] \in Docs /\ Uses(c)
  BY UsesSplit DEF UseInv, CallShape
<1>a. PICK sources \in SUBSET (Docs \ {doc[c]}) :
          /\ links' = [links EXCEPT ![c] = sources]
          /\ \/ pc' = [pc EXCEPT ![c] = "close"] /\ result' = [result EXCEPT ![c] = "ok"]
             \/ pc' = [pc EXCEPT ![c] = "relink"] /\ UNCHANGED result
  OBVIOUS
<1>1. TypeOK'
  <2>1. head' \in [Docs -> Nat] /\ etag' \in [Docs -> Nat] /\ known' \subseteq Docs
    <3>1. head[doc[c]] \in Nat
      BY <1>0 DEF TypeOK
    <3>2. head[doc[c]] + 1 \in Nat
      BY <3>1
    <3> QED
      BY <1>0, <3>2 DEF TypeOK
  <2>2. /\ pc' \in [Calls -> PCs] /\ result' \in [Calls -> {"none", "ok", "err"}]
        /\ links' \in [Calls -> SUBSET Docs]
    BY <1>0, <1>a, SMTT(60) DEF TypeOK, PCs
  <2>3. UNCHANGED <<manager, disk, request, view, source, process>>
    OBVIOUS
  <2> QED
    BY <1>0, <2>1, <2>2, <2>3 DEF TypeOK
<1>2. StepOthers(c)
  BY <1>0 DEF StepOthers, TypeOK
<1>3. StepGrows(c)
  BY <1>0 DEF StepGrows, TypeOK
<1>4. StepPc(c)
  <2>1. /\ pc[c] = "bump" /\ kind[c] = "edit" /\ c \in mem[doc[c]] /\ UNCHANGED mem
    BY <1>0 DEF UseInv, CallShape, Uses, InProgress, PCs
  <2>2. links'[c] = sources /\ doc[c] \notin sources
    BY <1>0, <1>a DEF TypeOK
  <2>3. pc'[c] \in {"close", "relink"}
    BY <1>0, <1>a DEF TypeOK
  <2> QED
    BY <2>1, <2>2, <2>3 DEF StepPc, InProgress, PCs, Linking
<1> QED
  BY <1>1, <1>2, <1>3, <1>4, StepUse

\* UseInv is kept when the new path is taken.
LEMMA PathConflictUse ==
    ASSUME UseInv, NEW c \in Calls, PathConflict(c)
    PROVE  UseInv'
<1> USE DEF PathConflict, Go, Return, manager, meta, disk, request, rename, process
<1>0. TypeOK /\ doc[c] \in Docs /\ Uses(c)
  BY UsesSplit DEF UseInv, CallShape
<1>1. TypeOK'
  BY <1>0, SMTT(60) DEF TypeOK, PCs
<1>2. StepOthers(c)
  BY <1>0 DEF StepOthers, TypeOK
<1>3. StepGrows(c)
  BY <1>0 DEF StepGrows, TypeOK
<1>4. StepPc(c)
  BY <1>0 DEF StepPc, TypeOK, UseInv, CallShape, InProgress, PCs, Linking, Uses
<1> QED
  BY <1>1, <1>2, <1>3, <1>4, StepUse

\* UseInv is kept when the rename rewrites links in another document.
LEMMA RewriteLinksUse ==
    ASSUME UseInv, NEW c \in Calls, RewriteLinks(c)
    PROVE  UseInv'
<1> USE DEF RewriteLinks, ApplyUpdate, Go, Return, manager, meta, disk, request, rename, process
<1>0. TypeOK /\ doc[c] \in Docs /\ Uses(c)
  BY UsesSplit DEF UseInv, CallShape
<1>1. TypeOK'
  BY <1>0 DEF TypeOK, PCs
<1>2. StepOthers(c)
  BY <1>0 DEF StepOthers, TypeOK
<1>3. StepGrows(c)
  BY <1>0 DEF StepGrows, TypeOK
<1>4. StepPc(c)
  BY <1>0 DEF StepPc, TypeOK, UseInv, CallShape, InProgress, PCs, Linking, Uses
<1> QED
  BY <1>1, <1>2, <1>3, <1>4, StepUse

\* UseInv is kept when the rename finds no link to rewrite.
LEMMA NothingToRewriteUse ==
    ASSUME UseInv, NEW c \in Calls, NothingToRewrite(c)
    PROVE  UseInv'
<1> USE DEF NothingToRewrite, Go, Return, manager, meta, disk, request, rename, process
<1>0. TypeOK /\ doc[c] \in Docs /\ Uses(c)
  BY UsesSplit DEF UseInv, CallShape
<1>1. TypeOK'
  BY <1>0, SMTT(60) DEF TypeOK, PCs
<1>2. StepOthers(c)
  BY <1>0 DEF StepOthers, TypeOK
<1>3. StepGrows(c)
  BY <1>0 DEF StepGrows, TypeOK
<1>4. StepPc(c)
  BY <1>0 DEF StepPc, TypeOK, UseInv, CallShape, InProgress, PCs, Linking, Uses
<1> QED
  BY <1>1, <1>2, <1>3, <1>4, StepUse

\* UseInv is kept when the rename counts up the head_seq of the document it
\* rewrote.
LEMMA RenumberUse ==
    ASSUME UseInv, NEW c \in Calls, Renumber(c)
    PROVE  UseInv'
<1> USE DEF Renumber, NextHead, Go, Return, manager, meta, disk, request, rename, process
<1>0. TypeOK /\ doc[c] \in Docs /\ Uses(c)
  BY UsesSplit DEF UseInv, CallShape
<1>1. TypeOK'
  BY <1>0, SMTT(60) DEF TypeOK, PCs
<1>2. StepOthers(c)
  BY <1>0 DEF StepOthers, TypeOK
<1>3. StepGrows(c)
  BY <1>0 DEF StepGrows, TypeOK
<1>4. StepPc(c)
  BY <1>0 DEF StepPc, TypeOK, UseInv, CallShape, InProgress, PCs, Linking, Uses
<1> QED
  BY <1>1, <1>2, <1>3, <1>4, StepUse

\* UseInv is kept when doc.edit_section changes the text.
LEMMA EditSectionUse ==
    ASSUME UseInv, NEW c \in Calls, EditSection(c)
    PROVE  UseInv'
<1> USE DEF EditSection, ApplyUpdate, Go, Return, manager, meta, disk, request, rename, process
<1>0. TypeOK /\ doc[c] \in Docs /\ Uses(c)
  BY UsesSplit DEF UseInv, CallShape
<1>1. TypeOK'
  BY <1>0 DEF TypeOK, PCs
<1>2. StepOthers(c)
  BY <1>0 DEF StepOthers, TypeOK
<1>3. StepGrows(c)
  BY <1>0 DEF StepGrows, TypeOK
<1>4. StepPc(c)
  BY <1>0 DEF StepPc, TypeOK, UseInv, CallShape, InProgress, PCs, Linking, Uses
<1> QED
  BY <1>1, <1>2, <1>3, <1>4, StepUse

\* UseInv is kept when doc.edit_section finds no section.
LEMMA SectionMissingUse ==
    ASSUME UseInv, NEW c \in Calls, SectionMissing(c)
    PROVE  UseInv'
<1> USE DEF SectionMissing, Go, Return, manager, meta, disk, request, rename, process
<1>0. TypeOK /\ doc[c] \in Docs /\ Uses(c)
  BY UsesSplit DEF UseInv, CallShape
<1>1. TypeOK'
  BY <1>0, SMTT(60) DEF TypeOK, PCs
<1>2. StepOthers(c)
  BY <1>0 DEF StepOthers, TypeOK
<1>3. StepGrows(c)
  BY <1>0 DEF StepGrows, TypeOK
<1>4. StepPc(c)
  BY <1>0 DEF StepPc, TypeOK, UseInv, CallShape, InProgress, PCs, Linking, Uses
<1> QED
  BY <1>1, <1>2, <1>3, <1>4, StepUse

\* UseInv is kept when doc.edit_section sets the etag.
LEMMA SectionEtagUse ==
    ASSUME UseInv, NEW c \in Calls, NEW n \in Lens, SectionEtag(c, n)
    PROVE  UseInv'
<1> USE DEF SectionEtag, Go, Return, manager, meta, disk, request, rename, process
<1>0. TypeOK /\ doc[c] \in Docs /\ Uses(c)
  BY UsesSplit DEF UseInv, CallShape
<1>1. TypeOK'
  BY <1>0, SMTT(60) DEF TypeOK, PCs
<1>2. StepOthers(c)
  BY <1>0 DEF StepOthers, TypeOK
<1>3. StepGrows(c)
  BY <1>0 DEF StepGrows, TypeOK
<1>4. StepPc(c)
  BY <1>0 DEF StepPc, TypeOK, UseInv, CallShape, InProgress, PCs, Linking, Uses
<1> QED
  BY <1>1, <1>2, <1>3, <1>4, StepUse
\* A crash ends every call and empties the memory.
LEMMA CrashUse ==
    ASSUME UseInv, Crash
    PROVE  UseInv'
<1>1. TypeOK'
  <2>1. torn' \in [Docs -> BOOLEAN] /\ files' \subseteq Docs
    <3>1. {doc[c] : c \in {c \in Calls : pc[c] = "append"}} \subseteq Docs
      BY DEF UseInv, CallShape
    <3> QED
      BY <3>1 DEF UseInv, TypeOK, Crash
  <2>2. crashes' \in 0..MaxCrashes
    BY DEF UseInv, TypeOK, Crash
  <2> QED
    BY <2>1, <2>2 DEF UseInv, TypeOK, Crash, PCs, request, rename
<1>2. \A c \in Calls : pc'[c] \notin InProgress
  BY DEF Crash, InProgress, PCs, UseInv, TypeOK
<1>3. IdleUnseen' /\ CallShape'
  BY <1>2 DEF UseInv, TypeOK, Crash, IdleUnseen, CallShape, InProgress, PCs, Linking,
              request, rename
<1> QED
  BY <1>1, <1>2, <1>3 DEF UseInv, InUseCounted, InUseStaysLoaded

\* Recovery puts into memory what the logs hold.
LEMMA RecoverUse ==
    ASSUME UseInv, RecoverDocs
    PROVE  /\ UseInv'
           /\ \A d \in Docs : mem'[d] \subseteq wal[d]
<1> DEFINE size == [d \in Docs |-> IF d \in files THEN Bytes(wal[d]) ELSE 0]
           order == [d \in Docs |-> IF d \in files
                                    THEN Cardinality({k \in files : k <= d}) ELSE 0]
           none == [d \in Docs |-> {}]
<1>0. TypeOK
  BY DEF UseInv
<1>1. \A S \in SUBSET Docs : Cardinality(S) \in Nat
  BY FS_Subset, FS_CardinalityType
<1>2. size \in [Docs -> Nat] /\ order \in [Docs -> Nat] /\ files \in SUBSET Docs
  <2>1. \A d \in Docs : Bytes(wal[d]) \in Nat
    BY <1>0, BytesNat DEF TypeOK
  <2>2. \A d \in Docs : {k \in files : k <= d} \in SUBSET Docs
    BY <1>0 DEF TypeOK
  <2> QED
    BY <1>0, <1>1, <2>1, <2>2 DEF TypeOK
<1>3. none \in [Docs -> SUBSET Calls] /\ wal \in [Docs -> SUBSET Calls]
  BY <1>0 DEF TypeOK
<1>4. ManagerBecomes(files, wal, none, size, order)
  BY DEF RecoverDocs
<1>5. /\ loaded' \subseteq Docs
      /\ mem' \in [Docs -> SUBSET Calls]
      /\ subs' = none /\ est' \in [Docs -> Nat] /\ tick' \in [Docs -> Nat]
      /\ \A d \in Docs : mem'[d] \subseteq wal[d]
  <2> HIDE DEF size, order, none
  <2> QED
    BY <1>2, <1>3, <1>4, ManagerKeeps
<1>6. /\ nextTick' \in Nat /\ up' = TRUE /\ torn' = [d \in Docs |-> FALSE]
      /\ UNCHANGED <<meta, files, wal, callVars, crashes>>
  <2>1. nextTick' = Cardinality(files) + 1
    BY DEF RecoverDocs
  <2> QED
    BY <1>1, <1>2, <2>1 DEF RecoverDocs, Truncate
<1>7. \A c \in Calls : pc[c] \notin InProgress
  BY DEF UseInv, CallShape, RecoverDocs
<1>8. TypeOK'
  BY <1>0, <1>5, <1>6 DEF TypeOK, meta, callVars, request, rename
<1>9. IdleUnseen'
  BY <1>0, <1>5, <1>6 DEF UseInv, IdleUnseen, TypeOK, callVars, request
<1>10. CallShape' /\ InUseCounted' /\ InUseStaysLoaded'
  BY <1>6, <1>7 DEF UseInv, CallShape, InUseCounted, InUseStaysLoaded, callVars,
                    request, rename, InProgress, PCs, Linking
<1> QED
  BY <1>5, <1>8, <1>9, <1>10 DEF UseInv

\* Every step of the daemon preserves UseInv.
LEMMA UseStep == UseInv /\ [Next]_vars => UseInv'
<1> SUFFICES ASSUME UseInv, [Next]_vars PROVE UseInv'
  OBVIOUS
<1>1. ASSUME NEW c \in Calls, CallNext(c) PROVE UseInv'
  BY <1>1, BeginUse, EndUse, ReadContentUse, RejectEditUse, CheckEtagUse, StageDocUse,
     AppendWalUse, AppendFailsUse, ApplyStagedUse, BumpHeadUse, PathConflictUse,
     RelinkUse, RewriteLinksUse, NothingToRewriteUse, RenumberUse, UnlinkUse,
     EditSectionUse, SectionMissingUse, SectionEtagUse
     DEF CallNext
<1>2. CASE Crash
  BY <1>2, CrashUse
<1>3. CASE RecoverDocs
  BY <1>3, RecoverUse
<1>4. CASE UNCHANGED vars
  BY <1>4 DEF vars, manager, meta, disk, callVars, request, rename, process, UseInv,
              TypeOK, IdleUnseen, CallShape, InUseCounted, InUseStaysLoaded, WorksOn
<1> QED
  BY <1>1, <1>2, <1>3, <1>4 DEF Next

\* The inductive invariant of DocManager's use holds in every execution.
THEOREM UseInvariance == Spec => []UseInv
<1>1. Init => UseInv
  BY UseInit
<1>2. UseInv /\ [Next]_vars => UseInv'
  BY UseStep
<1> QED
  BY <1>1, <1>2, PTL DEF Spec

\* The variables keep their types: sizes and ticks stay natural numbers
\* through eviction, recovery and crashes, and calls only reach known points.
THEOREM TypeCorrect == Spec => []TypeOK
<1>1. UseInv => TypeOK
  BY DEF UseInv
<1> QED
  BY <1>1, UseInvariance, PTL

\* No document is evicted under a call in progress, and an edit that has been
\* applied stays in memory until the call is over: evict_under_pressure only
\* takes documents without subscribers, and a call subscribes first and
\* unsubscribes last.
THEOREM InUseStaysLoadedHolds == Spec => []InUseStaysLoaded
<1>1. UseInv => InUseStaysLoaded
  BY DEF UseInv
<1> QED
  BY <1>1, UseInvariance, PTL

-----------------------------------------------------------------------------
(***************************************************************************)
(* DurableInv is inductive together with UseInv, where the WAL does not    *)
(* fail.                                                                   *)
(***************************************************************************)
WalReliable == ~DiskErrors /\ \A S \in SUBSET Calls : Bytes(S) <= MaxUpdate

\* Where the WAL is reliable, a frame appended behind a clean tail is replayed.
LEMMA FrameReadable ==
    ASSUME WalReliable, TypeOK, NEW x \in Docs, NEW edits \in SUBSET Calls,
           ~torn[x], AppendFrame(x, edits)
    PROVE  /\ wal' = [wal EXCEPT ![x] = @ \cup edits]
           /\ torn' = [torn EXCEPT ![x] = FALSE]
<1>1. ~(Bytes(edits) > MaxUpdate)
  <2>1. Bytes(edits) \in Nat /\ Bytes(edits) <= MaxUpdate
    BY BytesNat DEF WalReliable
  <2> QED
    BY <2>1
<1> QED
  BY <1>1 DEF AppendFrame

\* Nothing is in memory and nothing is logged when the daemon first starts.
LEMMA DurableInit == Init => DurableInv
BY DEF Init, DurableInv, TailClean, MemLogged, StagedLogged, ResultLogged, EditsOf

\* A new call changes neither the logs nor anything staged, and what it evicts
\* is not needed; its own edit is nowhere yet.
LEMMA BeginDurable ==
    ASSUME UseInv, DurableInv, NEW c \in Calls, NEW k \in Kinds, NEW x \in Docs,
           Begin(c, k, x)
    PROVE  DurableInv'
<1>0. TypeOK /\ pc[c] = "idle"
  BY DEF UseInv, Begin
<1>1. Shrinks
  BY <1>0, SubscribeFacts DEF Begin
<1>2. /\ UNCHANGED <<wal, torn, up, view, result>>
      /\ pc' = [pc EXCEPT ![c] = "open"]
      /\ kind' = [kind EXCEPT ![c] = k] /\ doc' = [doc EXCEPT ![c] = x]
  BY DEF Begin, Go, disk, rename, process
<1>3. /\ \A d \in Docs : c \notin mem[d]
      /\ \A e \in Calls : c \notin view[e]
      /\ result[c] = "none"
  BY <1>0 DEF UseInv, IdleUnseen
<1>4. TailClean'
  BY <1>2 DEF DurableInv, TailClean
<1>5. MemLogged'
  <2> SUFFICES ASSUME NEW d \in Docs, NEW e \in mem'[d], kind'[e] = "edit", doc'[e] = d
               PROVE  e \in wal[d]
    BY <1>2 DEF MemLogged, EditsOf
  <2>1. e \in mem[d] /\ e \in Calls /\ e # c
    BY <1>0, <1>1, <1>3 DEF Shrinks, TypeOK
  <2>2. kind[e] = "edit" /\ doc[e] = d
    BY <1>0, <1>2, <2>1 DEF TypeOK
  <2> QED
    BY <2>1, <2>2 DEF DurableInv, MemLogged, EditsOf
<1>6. StagedLogged'
  <2> SUFFICES ASSUME NEW e \in Calls, pc'[e] \in {"append", "apply"},
                      NEW f \in view[e], kind'[f] = "edit", doc'[f] = doc'[e]
               PROVE  /\ pc'[e] = "append" => f \in wal[doc'[e]] \cup {e}
                      /\ pc'[e] = "apply" => f \in wal[doc'[e]]
    BY <1>2 DEF StagedLogged, EditsOf
  <2>1. pc'[e] = pc[e] /\ doc'[e] = doc[e]
    BY <1>0, <1>2 DEF TypeOK
  <2>2. f \in Calls /\ f # c /\ kind[f] = "edit" /\ doc[f] = doc'[e]
    BY <1>0, <1>2, <1>3 DEF TypeOK
  <2> QED
    BY <2>1, <2>2 DEF DurableInv, StagedLogged, EditsOf
<1>7. ResultLogged'
  BY <1>0, <1>2, <1>3 DEF DurableInv, ResultLogged, TypeOK, Linking
<1> QED
  BY <1>4, <1>5, <1>6, <1>7 DEF DurableInv

\* A step of one call that leaves the logs alone, brings no edit into memory
\* that is not logged, and settles nothing that is not logged.
QuietStep(c) ==
    /\ UNCHANGED <<wal, torn, up, kind, doc>>
    /\ \A d \in Docs : EditsOf(d, mem'[d]) \subseteq mem[d] \cup wal[d]
    /\ \A e \in Calls \ {c} : pc'[e] = pc[e] /\ result'[e] = result[e] /\ view'[e] = view[e]
    /\ pc'[c] \notin {"append", "apply"}
    /\ kind[c] = "edit" /\ (pc'[c] \in {"bump"} \cup Linking \/ result'[c] = "ok")
          => c \in wal[doc[c]]

\* Such a step preserves DurableInv.
LEMMA QuietDurable ==
    ASSUME DurableInv, NEW c \in Calls, QuietStep(c)
    PROVE  DurableInv'
<1>1. TailClean'
  BY DEF DurableInv, TailClean, QuietStep
<1>2. MemLogged'
  BY DEF DurableInv, MemLogged, EditsOf, QuietStep
<1>3. StagedLogged'
  <2> SUFFICES ASSUME NEW e \in Calls
               PROVE  /\ pc'[e] = "append" => EditsOf(doc[e], view'[e]) \subseteq wal[doc[e]] \cup {e}
                      /\ pc'[e] = "apply" => EditsOf(doc[e], view'[e]) \subseteq wal[doc[e]]
    BY DEF StagedLogged, EditsOf, QuietStep
  <2> QED
    BY DEF DurableInv, StagedLogged, QuietStep
<1>4. ResultLogged'
  BY DEF DurableInv, ResultLogged, QuietStep
<1> QED
  BY <1>1, <1>2, <1>3, <1>4 DEF DurableInv

\* Most steps of a call are of that kind.
LEMMA QuietSteps ==
    ASSUME UseInv, DurableInv, NEW c \in Calls,
           \/ End(c) \/ ReadContent(c) \/ RejectEdit(c) \/ CheckEtag(c) \/ ApplyStaged(c)
           \/ BumpHead(c) \/ PathConflict(c) \/ (\E x \in Docs : Relink(c, x))
           \/ RewriteLinks(c) \/ NothingToRewrite(c) \/ Renumber(c) \/ Unlink(c)
           \/ EditSection(c) \/ SectionMissing(c) \/ (\E n \in Lens : SectionEtag(c, n))
    PROVE  QuietStep(c)
<1>0. TypeOK
  BY DEF UseInv
<1>a. \A d \in Docs : EditsOf(d, mem[d]) \subseteq wal[d]
  BY DEF DurableInv, MemLogged
<1>b. /\ pc[c] # "idle" => doc[c] \in Docs
      /\ kind[c] = "edit" /\ (pc[c] \in {"apply", "bump"} \cup Linking \/ result[c] = "ok")
            => c \in wal[doc[c]]
  BY DEF UseInv, CallShape, DurableInv, ResultLogged
<1> USE DEF Go, Return, manager, meta, disk, request, rename, process
<1>1. CASE End(c)
  <2>1. Shrinks
    BY <1>0, <1>1, <1>b, UnsubscribeFacts DEF End
  <2> QED
    BY <1>0, <1>1, <1>b, <2>1 DEF End, QuietStep, TypeOK, Shrinks, EditsOf, Linking
<1>2. CASE ReadContent(c)
  BY <1>0, <1>2 DEF ReadContent, QuietStep, TypeOK, EditsOf, Linking
<1>3. CASE RejectEdit(c)
  BY <1>0, <1>3 DEF RejectEdit, QuietStep, TypeOK, EditsOf, Linking
<1>4. CASE CheckEtag(c)
  BY <1>0, <1>4, <1>b DEF CheckEtag, QuietStep, TypeOK, EditsOf, Linking
<1>5. CASE ApplyStaged(c)
  <2>1. doc[c] \in Docs /\ EditsOf(doc[c], view[c]) \subseteq wal[doc[c]]
    BY <1>5, <1>b DEF ApplyStaged, DurableInv, StagedLogged
  <2>2. \A d \in Docs : EditsOf(d, mem'[d]) \subseteq mem[d] \cup wal[d]
    BY <1>0, <1>5, <2>1 DEF ApplyStaged, ApplyUpdate, EditsOf, TypeOK
  <2> QED
    BY <1>0, <1>5, <1>b, <2>2 DEF ApplyStaged, QuietStep, TypeOK, Linking
<1>6. CASE BumpHead(c)
  <2>1. UNCHANGED mem
    BY <1>6 DEF BumpHead
  <2>2. /\ UNCHANGED <<wal, torn, up, kind, doc, view>>
        /\ pc' = [pc EXCEPT ![c] = pc'[c]] /\ pc'[c] \in {"close", "relink"}
        /\ result' = [result EXCEPT ![c] = result'[c]]
    BY <1>0, <1>6 DEF BumpHead, RelinkOrReturn, TypeOK
  <2>3. \A e \in Calls \ {c} : pc'[e] = pc[e] /\ result'[e] = result[e] /\ view'[e] = view[e]
    BY <1>0, <2>2 DEF TypeOK
  <2>4. kind[c] = "edit" => c \in wal[doc[c]]
    BY <1>6, <1>b DEF BumpHead
  <2> QED
    BY <2>1, <2>2, <2>3, <2>4 DEF QuietStep, EditsOf
<1>7. CASE PathConflict(c)
  BY <1>0, <1>7 DEF PathConflict, QuietStep, TypeOK, EditsOf, Linking
<1>8. ASSUME NEW x \in Docs, Relink(c, x) PROVE QuietStep(c)
  <2>1. Shrinks
    BY <1>8, RelinkUse
  <2>2. /\ UNCHANGED <<wal, torn, up, kind, doc, view>>
        /\ pc' = [pc EXCEPT ![c] = pc'[c]] /\ pc'[c] \in {"close", "relink", "rewrite"}
        /\ result' = [result EXCEPT ![c] = result'[c]]
    BY <1>0, <1>8 DEF Relink, RelinkOrReturn, TypeOK
  <2>3. \A e \in Calls \ {c} : pc'[e] = pc[e] /\ result'[e] = result[e] /\ view'[e] = view[e]
    BY <1>0, <2>2 DEF TypeOK
  <2>4. kind[c] = "edit" => c \in wal[doc[c]]
    BY <1>8, <1>b DEF Relink, Linking
  <2> QED
    BY <2>1, <2>2, <2>3, <2>4 DEF QuietStep, EditsOf, Shrinks
<1>9. CASE RewriteLinks(c)
  <2>1. source[c] \in Docs \ {doc[c]}
    BY <1>9 DEF RewriteLinks, UseInv, CallShape, Linking
  <2>2. \A d \in Docs : EditsOf(d, mem'[d]) \subseteq mem[d]
    BY <1>0, <1>9, <2>1 DEF RewriteLinks, ApplyUpdate, EditsOf, TypeOK
  <2> QED
    BY <1>0, <1>9, <1>b, <2>2 DEF RewriteLinks, QuietStep, TypeOK, Linking
<1>10. CASE NothingToRewrite(c)
  BY <1>0, <1>10, <1>b DEF NothingToRewrite, QuietStep, TypeOK, EditsOf, Linking
<1>11. CASE Renumber(c)
  BY <1>0, <1>11, <1>b DEF Renumber, QuietStep, TypeOK, EditsOf, Linking
<1>12. CASE Unlink(c)
  <2>1. Shrinks
    BY <1>12, UnlinkUse
  <2>2. /\ UNCHANGED <<wal, torn, up, kind, doc, view>>
        /\ pc' = [pc EXCEPT ![c] = pc'[c]] /\ pc'[c] \in {"close", "relink"}
        /\ result' = [result EXCEPT ![c] = result'[c]]
    BY <1>0, <1>12 DEF Unlink, RelinkOrReturn, TypeOK
  <2>3. \A e \in Calls \ {c} : pc'[e] = pc[e] /\ result'[e] = result[e] /\ view'[e] = view[e]
    BY <1>0, <2>2 DEF TypeOK
  <2>4. kind[c] = "edit" => c \in wal[doc[c]]
    BY <1>12, <1>b DEF Unlink, Linking
  <2> QED
    BY <2>1, <2>2, <2>3, <2>4 DEF QuietStep, EditsOf, Shrinks
<1>13. CASE EditSection(c)
  <2>1. \A d \in Docs : EditsOf(d, mem'[d]) \subseteq mem[d]
    BY <1>0, <1>13 DEF EditSection, ApplyUpdate, EditsOf, TypeOK
  <2> QED
    BY <1>0, <1>13, <2>1 DEF EditSection, QuietStep, TypeOK, Linking
<1>14. CASE SectionMissing(c)
  BY <1>0, <1>14 DEF SectionMissing, QuietStep, TypeOK, EditsOf, Linking
<1>15. ASSUME NEW n \in Lens, SectionEtag(c, n) PROVE QuietStep(c)
  BY <1>0, <1>15 DEF SectionEtag, QuietStep, TypeOK, EditsOf, Linking, UseInv, CallShape
<1> QED
  BY <1>1, <1>2, <1>3, <1>4, <1>5, <1>6, <1>7, <1>8, <1>9, <1>10, <1>11, <1>12, <1>13,
     <1>14, <1>15

\* Every step of the daemon preserves DurableInv.
LEMMA DurableStep ==
    ASSUME WalReliable, UseInv, DurableInv, [Next]_vars
    PROVE  DurableInv'
<1>0. TypeOK
  BY DEF UseInv
<1> USE DEF Go, Return, manager, meta, disk, request, rename, process
<1>1. ASSUME NEW c \in Calls, NEW k \in Kinds, NEW x \in Docs, Begin(c, k, x)
      PROVE  DurableInv'
  BY <1>1, BeginDurable
<1>2. ASSUME NEW c \in Calls, QuietStep(c) PROVE DurableInv'
  BY <1>2, QuietDurable
<1>4. ASSUME NEW c \in Calls, StageDoc(c) PROVE DurableInv'
  <2>1. doc[c] \in Docs /\ mem[doc[c]] \in SUBSET Calls
    BY <1>0, <1>4 DEF StageDoc, UseInv, CallShape, TypeOK
  <2>2. /\ UNCHANGED <<mem, wal, torn, up, kind, doc, result>>
        /\ view' = [view EXCEPT ![c] = mem[doc[c]] \cup {c}]
        /\ pc' = [pc EXCEPT ![c] = "append"]
    BY <1>4 DEF StageDoc
  <2>3. TailClean' /\ MemLogged'
    BY <2>2 DEF DurableInv, TailClean, MemLogged, EditsOf
  <2>4. view'[c] = mem[doc[c]] \cup {c}
    BY <1>0, <2>2 DEF TypeOK
  <2>5. EditsOf(doc[c], mem[doc[c]]) \subseteq wal[doc[c]]
    BY <2>1 DEF DurableInv, MemLogged
  <2>6. StagedLogged'
    <3> SUFFICES ASSUME NEW e \in Calls
                 PROVE  /\ pc'[e] = "append" => EditsOf(doc[e], view'[e]) \subseteq wal[doc[e]] \cup {e}
                        /\ pc'[e] = "apply" => EditsOf(doc[e], view'[e]) \subseteq wal[doc[e]]
      BY <2>2 DEF StagedLogged, EditsOf
    <3>1. CASE e = c
      BY <1>0, <2>2, <2>4, <2>5, <3>1 DEF EditsOf, TypeOK
    <3>2. CASE e # c
      BY <1>0, <2>2, <3>2 DEF DurableInv, StagedLogged, TypeOK
    <3> QED
      BY <3>1, <3>2
  <2>7. ResultLogged'
    BY <1>0, <2>2 DEF DurableInv, ResultLogged, TypeOK, Linking
  <2> QED
    BY <2>3, <2>6, <2>7 DEF DurableInv
<1>5. ASSUME NEW c \in Calls, AppendWal(c) PROVE DurableInv'
  <2>1. doc[c] \in Docs /\ ~torn[doc[c]] /\ c \in view[c] /\ view[c] \in SUBSET Calls
    BY <1>0, <1>5 DEF AppendWal, UseInv, CallShape, InProgress, PCs, DurableInv, TailClean, TypeOK
  <2>2. /\ wal' = [wal EXCEPT ![doc[c]] = @ \cup view[c]]
        /\ torn' = [torn EXCEPT ![doc[c]] = FALSE]
    BY <1>0, <1>5, <2>1, FrameReadable DEF AppendWal
  <2>3. \A d \in Docs : wal[d] \subseteq wal'[d]
    BY <1>0, <2>1, <2>2 DEF TypeOK
  <2>4. TailClean'
    BY <1>0, <1>5, <2>1, <2>2 DEF AppendWal, DurableInv, TailClean, TypeOK
  <2>5. MemLogged'
    BY <1>5, <2>3 DEF AppendWal, DurableInv, MemLogged, EditsOf
  <2>6. view[c] \subseteq wal'[doc[c]]
    BY <1>0, <2>1, <2>2 DEF TypeOK
  <2>a. UNCHANGED <<kind, doc, view, result>> /\ pc' = [pc EXCEPT ![c] = "apply"]
    BY <1>5 DEF AppendWal
  <2>b. \A e \in Calls : pc[e] # "idle" => doc[e] \in Docs
    BY DEF UseInv, CallShape
  <2>7. StagedLogged'
    <3> SUFFICES ASSUME NEW e \in Calls
                 PROVE  /\ pc'[e] = "append" => EditsOf(doc[e], view[e]) \subseteq wal'[doc[e]] \cup {e}
                        /\ pc'[e] = "apply" => EditsOf(doc[e], view[e]) \subseteq wal'[doc[e]]
      BY <2>a DEF StagedLogged, EditsOf
    <3>1. CASE e = c
      BY <1>0, <2>6, <2>a, <3>1 DEF EditsOf, TypeOK
    <3>2. CASE e # c
      <4>1. pc'[e] = pc[e]
        BY <1>0, <2>a, <3>2 DEF TypeOK
      <4>2. pc[e] # "idle" => wal[doc[e]] \subseteq wal'[doc[e]]
        BY <2>3, <2>b
      <4>3. /\ pc[e] = "append" => EditsOf(doc[e], view[e]) \subseteq wal[doc[e]] \cup {e}
            /\ pc[e] = "apply" => EditsOf(doc[e], view[e]) \subseteq wal[doc[e]]
        BY DEF DurableInv, StagedLogged
      <4> QED
        BY <4>1, <4>2, <4>3
    <3> QED
      BY <3>1, <3>2
  <2>8. ResultLogged'
    <3> SUFFICES ASSUME NEW e \in Calls, kind[e] = "edit",
                        pc'[e] \in {"apply", "bump"} \cup Linking \/ result[e] = "ok"
                 PROVE  e \in wal'[doc[e]]
      BY <2>a DEF ResultLogged
    <3>1. CASE e = c
      BY <2>1, <2>6, <3>1
    <3>2. CASE e # c
      <4>1. pc'[e] = pc[e] /\ pc[e] # "idle"
        BY <1>0, <2>a, <3>2 DEF TypeOK, UseInv, IdleUnseen, Linking
      <4>2. e \in wal[doc[e]]
        BY <2>a, <4>1 DEF DurableInv, ResultLogged, Linking
      <4> QED
        BY <2>3, <2>b, <4>1, <4>2
    <3> QED
      BY <3>1, <3>2
  <2> QED
    BY <2>4, <2>5, <2>7, <2>8 DEF DurableInv
<1>9. CASE Crash
  BY <1>0, <1>9 DEF Crash, DurableInv, TailClean, MemLogged, StagedLogged, ResultLogged,
                    EditsOf, TypeOK, InProgress, PCs, Linking
<1>10. CASE RecoverDocs
  <2>1. \A d \in Docs : mem'[d] \subseteq wal[d]
    BY <1>10, RecoverUse
  <2> QED
    BY <1>10, <2>1 DEF RecoverDocs, Truncate, callVars, DurableInv, TailClean, MemLogged,
                       StagedLogged, ResultLogged, EditsOf
<1>11. CASE UNCHANGED vars
  BY <1>11 DEF vars, callVars, DurableInv, TailClean, MemLogged, StagedLogged, ResultLogged, EditsOf
<1>12. ASSUME NEW c \in Calls, AppendFails(c) PROVE FALSE
  BY <1>12 DEF AppendFails, WalReliable
<1>13. ASSUME NEW c \in Calls, CallNext(c) PROVE DurableInv'
  BY <1>1, <1>2, <1>4, <1>5, <1>12, <1>13, QuietSteps DEF CallNext
<1> QED
  BY <1>9, <1>10, <1>11, <1>13 DEF Next

\* doc.edit is durable: where no frame is torn by a failing write and no
\* state outgrows MAX_UPDATE_BYTES, every acknowledged edit, and every edit
\* of doc.edit visible in memory, is in the part of the WAL that recovery
\* replays, through any number of crashes, torn tails, evictions and
\* concurrent calls, doc.edit_section among them.
THEOREM EditDurableHolds ==
    ASSUME WalReliable
    PROVE  Spec => []EditDurable
<1>1. Init => UseInv /\ DurableInv
  BY UseInit, DurableInit
<1>2. UseInv /\ DurableInv /\ [Next]_vars => (UseInv /\ DurableInv)'
  BY UseStep, DurableStep
<1>3. UseInv /\ DurableInv => EditDurable
  BY DEF UseInv, TypeOK, IdleUnseen, CallShape, DurableInv, MemLogged, ResultLogged, EditsOf, EditDurable, Acked
<1> QED
  BY <1>1, <1>2, <1>3, PTL DEF Spec

-----------------------------------------------------------------------------
(***************************************************************************)
(* What a read returns, where the daemon never has to evict a document:    *)
(* max_memory_bytes holds every document with every edit.  (With less, an  *)
(* evicted document comes back empty: subscribe_or_create makes a new one  *)
(* and does not look into the WAL.)                                        *)
(***************************************************************************)
MemoryAmple ==
    \A docs \in SUBSET Docs, sizes \in [Docs -> 0..Bytes(Calls)] :
        TotalBytes(docs, sizes) \in 0..MaxBytes

\* Among finitely many documents one was used last.
LEMMA LatestTick ==
    ASSUME NEW S \in SUBSET Docs, S # {}, NEW t \in [Docs -> Nat]
    PROVE  \E d \in S : \A k \in S : t[k] <= t[d]
<1> DEFINE After(d) == {k \in S : t[k] > t[d]}
           N == {Cardinality(After(d)) : d \in S}
           R == {ss \in Nat \X Nat : ss[1] < ss[2]}
<1>1. \A d \in S : IsFiniteSet(After(d)) /\ Cardinality(After(d)) \in Nat
  <2>1. \A d \in S : After(d) \in SUBSET Docs
    OBVIOUS
  <2> HIDE DEF After
  <2> QED
    BY <2>1, FS_Subset, FS_CardinalityType
<1>2. PICK n \in N : \A j \in N : n <= j
  <2>1. N \in SUBSET Nat /\ N # {}
    <3> HIDE DEF After
    <3> QED
      BY <1>1
  <2>2. IsWellFoundedOn(R, Nat)
    BY NatLessThanWellFounded DEF OpToRel
  <2>3. \A i, j \in Nat : <<i, j>> \notin R => j <= i
    OBVIOUS
  <2> HIDE DEF R, N
  <2>4. PICK n \in N : \A j \in N : ~(<<j, n>> \in R)
    BY <2>1, <2>2, WFMin
  <2> QED
    BY <2>1, <2>3, <2>4
<1>3. PICK d \in S : n = Cardinality(After(d))
  OBVIOUS
<1>4. ASSUME NEW k \in S, ~(t[k] <= t[d]) PROVE FALSE
  <2>1. t[k] \in Nat /\ t[d] \in Nat /\ t[k] > t[d]
    BY <1>4
  <2>2. After(k) \subseteq After(d) /\ k \in After(d) /\ k \notin After(k)
    <3>1. \A j \in S : t[j] \in Nat
      OBVIOUS
    <3>2. \A a, b, e \in Nat : (e > a /\ a > b => e > b) /\ ~(a > a)
      OBVIOUS
    <3>3. k \in After(d) /\ k \notin After(k)
      BY <2>1, <3>2
    <3>4. ASSUME NEW j \in After(k) PROVE j \in After(d)
      BY <2>1, <3>1, <3>2, <3>4
    <3> QED
      BY <3>3, <3>4
  <2>3. Cardinality(After(d)) <= Cardinality(After(k))
    <3> HIDE DEF After
    <3> QED
      BY <1>2, <1>3
  <2> HIDE DEF After
  <2>4. After(k) \in SUBSET After(d) /\ After(d) # After(k)
    BY <2>2
  <2>5. /\ Cardinality(After(k)) <= Cardinality(After(d))
        /\ Cardinality(After(d)) = Cardinality(After(k)) => After(d) = After(k)
    BY <1>1, <2>4, FS_Subset
  <2> QED
    BY <1>1, <2>3, <2>4, <2>5
<1> QED
  BY <1>4

\* Where memory is ample, relieving memory pressure evicts nothing.
LEMMA NothingEvicted ==
    ASSUME MemoryAmple,
           NEW docs \in SUBSET Docs, NEW m \in [Docs -> SUBSET Calls],
           NEW s \in [Docs -> SUBSET Calls], NEW sizes \in [Docs -> 0..Bytes(Calls)],
           NEW t \in [Docs -> Nat], ManagerBecomes(docs, m, s, sizes, t)
    PROVE  mem' = m /\ est' = sizes
<1>1. PICK gone \in SUBSET Unsubscribed(docs, s) :
          /\ \A d \in gone : (\A k \in gone : t[k] <= t[d]) =>
                 TotalBytes((docs \ gone) \cup {d}, sizes) > MaxBytes
          /\ mem' = [d \in Docs |-> IF d \in gone THEN {} ELSE m[d]]
          /\ est' = sizes
  BY DEF ManagerBecomes, Evicts
<1>2. gone \in SUBSET Docs
  BY DEF Unsubscribed
<1>3. ASSUME gone # {} PROVE FALSE
  <2>1. PICK d \in gone : \A k \in gone : t[k] <= t[d]
    BY <1>2, <1>3, LatestTick
  <2>2. (docs \ gone) \cup {d} \in SUBSET Docs
    BY <1>2
  <2> DEFINE b == TotalBytes((docs \ gone) \cup {d}, sizes)
  <2>3. b > MaxBytes /\ b \in 0..MaxBytes
    BY <1>1, <2>1, <2>2 DEF MemoryAmple
  <2> HIDE DEF b
  <2> QED
    BY <2>3
<1> QED
  BY <1>1, <1>3

\* estimated_bytes is never more than a document with every edit takes.
SizesBounded == est \in [Docs -> 0..Bytes(Calls)]

\* While the daemon runs, every acknowledged edit of doc.edit is in memory.
AckedInMem == up => \A c \in Calls : kind[c] = "edit" /\ result[c] = "ok" => c \in mem[doc[c]]

\* A call that has only subscribed still finds what was acknowledged before it.
PromisedInMem == \A c \in Calls : pc[c] = "open" => promised[c] \subseteq mem[doc[c]]

ReadInv == SizesBounded /\ AckedInMem /\ PromisedInMem /\ ReadSeesAcked

\* Sizes of documents in memory and after recovery.
LEMMA BytesBounded ==
    ASSUME NEW S \in SUBSET Calls
    PROVE  Bytes(S) \in 0..Bytes(Calls)
<1>1. /\ IsFiniteSet(S) /\ Cardinality(S) <= Cardinality(Calls)
  BY CallsFinite, FS_Subset
<1>2. Cardinality(S) \in Nat /\ Cardinality(Calls) \in Nat
  BY <1>1, CallsFinite, FS_CardinalityType
<1> QED
  BY <1>1, <1>2 DEF Bytes

MemGrows == \A d \in Docs : mem[d] \subseteq mem'[d]

\* Subscribing loses nothing where memory is ample.
LEMMA SubscribeGrows ==
    ASSUME MemoryAmple, TypeOK, SizesBounded, NEW c \in Calls, NEW x \in Docs,
           SubscribeOrCreate(c, x)
    PROVE  MemGrows /\ SizesBounded'
<1> DEFINE s == [subs EXCEPT ![x] = @ \cup {c}]
           t == [tick EXCEPT ![x] = 0]
           z == [est EXCEPT ![x] = Bytes({})]
<1>1. s \in [Docs -> SUBSET Calls] /\ t \in [Docs -> Nat]
  BY DEF TypeOK
<1>2. z \in [Docs -> 0..Bytes(Calls)]
  <2>1. Bytes({}) \in 0..Bytes(Calls)
    BY BytesBounded
  <2> QED
    BY <2>1 DEF SizesBounded
<1>3. CASE UNCHANGED <<mem, est>>
  BY <1>3 DEF MemGrows, SizesBounded
<1>4. CASE ManagerBecomes(loaded \cup {x}, mem, s, z, t)
  <2>1. loaded \cup {x} \in SUBSET Docs /\ mem \in [Docs -> SUBSET Calls]
    BY DEF TypeOK
  <2> HIDE DEF s, t, z
  <2>2. mem' = mem /\ est' = z
    BY <1>1, <1>2, <1>4, <2>1, NothingEvicted
  <2> QED
    BY <1>2, <2>2 DEF MemGrows, SizesBounded
<1> QED
  BY <1>3, <1>4 DEF SubscribeOrCreate

\* Unsubscribing loses nothing where memory is ample.
LEMMA UnsubscribeGrows ==
    ASSUME MemoryAmple, TypeOK, SizesBounded, NEW c \in Calls, NEW x \in Docs,
           Unsubscribe(c, x)
    PROVE  MemGrows /\ SizesBounded'
<1> DEFINE s == [subs EXCEPT ![x] = @ \ {c}]
           t == [tick EXCEPT ![x] = nextTick]
<1>1. s \in [Docs -> SUBSET Calls] /\ t \in [Docs -> Nat]
  BY DEF TypeOK
<1>3. CASE UNCHANGED <<mem, est>>
  BY <1>3 DEF MemGrows, SizesBounded
<1>4. CASE ManagerBecomes(loaded, mem, s, est, t)
  <2>1. loaded \in SUBSET Docs /\ mem \in [Docs -> SUBSET Calls]
    BY DEF TypeOK
  <2> HIDE DEF s, t
  <2>2. mem' = mem /\ est' = est
    BY <1>1, <1>4, <2>1, NothingEvicted DEF SizesBounded
  <2> QED
    BY <2>2 DEF MemGrows, SizesBounded
<1> QED
  BY <1>3, <1>4 DEF Unsubscribe

\* A step of a call that is under way: memory only grows, the requests stay,
\* an edit is acknowledged after it has been applied, and a read answers with
\* the document as it is.
ReadStep(c) ==
    /\ MemGrows /\ SizesBounded'
    /\ up /\ UNCHANGED <<up, kind, doc, promised>>
    /\ \A e \in Calls \ {c} : pc'[e] = pc[e] /\ result'[e] = result[e] /\ view'[e] = view[e]
    /\ pc'[c] # "open" /\ doc[c] \in Docs
    /\ kind[c] = "edit" /\ result'[c] = "ok" => result[c] = "ok" \/ c \in mem[doc[c]]
    /\ kind[c] = "read" /\ result'[c] = "ok" =>
           \/ pc[c] = "open" /\ view'[c] = mem[doc[c]]
           \/ result[c] = "ok" /\ view'[c] = view[c]

\* Such a step preserves ReadInv.
LEMMA ReadStepKeeps ==
    ASSUME UseInv, ReadInv, NEW c \in Calls, ReadStep(c)
    PROVE  ReadInv'
<1>0. \A e \in Calls : pc[e] # "idle" => doc[e] \in Docs
  BY DEF UseInv, CallShape
<1>1. AckedInMem'
  <2> SUFFICES ASSUME NEW e \in Calls, kind[e] = "edit", result'[e] = "ok"
               PROVE  e \in mem'[doc[e]]
    BY DEF AckedInMem, ReadStep
  <2>1. doc[e] \in Docs
    BY <1>0 DEF ReadStep, UseInv, IdleUnseen
  <2>2. e \in mem[doc[e]]
    BY DEF ReadStep, ReadInv, AckedInMem
  <2> QED
    BY <2>1, <2>2 DEF ReadStep, MemGrows
<1>2. PromisedInMem'
  <2> SUFFICES ASSUME NEW e \in Calls, pc'[e] = "open"
               PROVE  promised[e] \subseteq mem'[doc[e]]
    BY DEF PromisedInMem, ReadStep
  <2>1. pc[e] = "open"
    BY DEF ReadStep
  <2> QED
    BY <1>0, <2>1 DEF ReadInv, PromisedInMem, ReadStep, MemGrows
<1>3. ReadSeesAcked'
  <2> SUFFICES ASSUME NEW e \in Calls, kind[e] = "read", result'[e] = "ok"
               PROVE  promised[e] \subseteq view'[e]
    BY DEF ReadSeesAcked, ReadStep
  <2> QED
    BY DEF ReadInv, ReadSeesAcked, PromisedInMem, ReadStep
<1> QED
  BY <1>1, <1>2, <1>3 DEF ReadInv, ReadStep

\* A new call: what was acknowledged before it is in memory.
LEMMA BeginReads ==
    ASSUME MemoryAmple, UseInv, ReadInv, NEW c \in Calls, NEW k \in Kinds, NEW x \in Docs,
           Begin(c, k, x)
    PROVE  ReadInv'
<1>0. TypeOK /\ up /\ pc[c] = "idle" /\ result[c] = "none"
  BY DEF UseInv, IdleUnseen, Begin
<1>1. MemGrows /\ SizesBounded'
  BY <1>0, SubscribeGrows DEF Begin, ReadInv
<1>2. /\ UNCHANGED <<up, view, result>>
      /\ pc' = [pc EXCEPT ![c] = "open"]
      /\ kind' = [kind EXCEPT ![c] = k] /\ doc' = [doc EXCEPT ![c] = x]
      /\ promised' = [promised EXCEPT ![c] = AckedEdits(x)]
  BY DEF Begin, Go, rename, process
<1>3. \A e \in Calls \ {c} : /\ pc'[e] = pc[e] /\ kind'[e] = kind[e]
                             /\ doc'[e] = doc[e] /\ promised'[e] = promised[e]
  BY <1>0, <1>2 DEF TypeOK
<1>4. pc'[c] = "open" /\ doc'[c] = x /\ promised'[c] = AckedEdits(x)
  BY <1>0, <1>2 DEF TypeOK
<1>5. \A e \in Calls : pc[e] # "idle" => doc[e] \in Docs
  BY DEF UseInv, CallShape
<1>6. AckedEdits(x) \subseteq mem[x]
  BY <1>0 DEF AckedEdits, Acked, ReadInv, AckedInMem
<1>7. AckedInMem'
  <2> SUFFICES ASSUME NEW e \in Calls, kind'[e] = "edit", result[e] = "ok"
               PROVE  e \in mem'[doc'[e]]
    BY <1>2 DEF AckedInMem
  <2>1. e # c /\ doc[e] \in Docs
    BY <1>0, <1>5 DEF UseInv, IdleUnseen
  <2> QED
    BY <1>0, <1>1, <1>3, <2>1 DEF ReadInv, AckedInMem, MemGrows
<1>8. PromisedInMem'
  <2> SUFFICES ASSUME NEW e \in Calls, pc'[e] = "open"
               PROVE  promised'[e] \subseteq mem'[doc'[e]]
    BY DEF PromisedInMem
  <2>1. CASE e = c
    BY <1>1, <1>4, <1>6, <2>1 DEF MemGrows
  <2>2. CASE e # c
    BY <1>1, <1>3, <1>5, <2>2 DEF ReadInv, PromisedInMem, MemGrows
  <2> QED
    BY <2>1, <2>2
<1>9. ReadSeesAcked'
  <2> SUFFICES ASSUME NEW e \in Calls, kind'[e] = "read", result[e] = "ok"
               PROVE  promised'[e] \subseteq view[e]
    BY <1>2 DEF ReadSeesAcked
  <2>1. e # c
    BY <1>0
  <2> QED
    BY <1>3, <2>1 DEF ReadInv, ReadSeesAcked
<1> QED
  BY <1>1, <1>7, <1>8, <1>9 DEF ReadInv

\* Every other step of a call is a ReadStep.
LEMMA CallReads ==
    ASSUME MemoryAmple, UseInv, ReadInv, NEW c \in Calls, CallNext(c),
           ~(\E k \in Kinds, d \in Docs : Begin(c, k, d))
    PROVE  ReadStep(c)
<1>0. TypeOK /\ SizesBounded
  BY DEF UseInv, ReadInv
<1>a. pc[c] \in InProgress => up /\ doc[c] \in Docs
  BY DEF UseInv, CallShape, InProgress
<1>b. pc[c] \in {"bump"} \cup Linking => c \in mem[doc[c]]
  BY DEF UseInv, InUseStaysLoaded, InProgress, PCs, Linking
<1>c. pc[c] \in Linking \ {"relink"} => source[c] \in Docs
  BY DEF UseInv, CallShape
<1>d. UNCHANGED <<mem, est>> => MemGrows /\ SizesBounded'
  BY <1>0 DEF MemGrows, SizesBounded
<1>e. ASSUME NEW x \in Docs, NEW S, ApplyUpdate(x, S) PROVE MemGrows /\ SizesBounded'
  BY <1>0, <1>e DEF ApplyUpdate, MemGrows, SizesBounded, TypeOK
<1>f. /\ pc[c] \in {"stage", "append", "apply", "bump"} \cup Linking => kind[c] = "edit"
      /\ pc[c] = "retag" => kind[c] = "section"
  BY DEF UseInv, CallShape
<1> USE DEF Go, Return, manager, meta, disk, request, rename, process
<1>1. CASE End(c)
  <2>1. MemGrows /\ SizesBounded'
    BY <1>0, <1>1, <1>a, UnsubscribeGrows DEF End, InProgress, PCs
  <2> QED
    BY <1>0, <1>1, <1>a, <2>1 DEF End, ReadStep, TypeOK, InProgress, PCs
<1>2. CASE ReadContent(c)
  BY <1>0, <1>2, <1>a, <1>d DEF ReadContent, ReadStep, TypeOK, InProgress, PCs
<1>3. CASE RejectEdit(c)
  BY <1>0, <1>3, <1>a, <1>d DEF RejectEdit, ReadStep, TypeOK, InProgress, PCs
<1>4. CASE CheckEtag(c)
  BY <1>0, <1>4, <1>a, <1>d DEF CheckEtag, ReadStep, TypeOK, InProgress, PCs
<1>5. CASE StageDoc(c)
  BY <1>0, <1>5, <1>a, <1>d, <1>f DEF StageDoc, ReadStep, TypeOK, InProgress, PCs
<1>6. CASE AppendWal(c)
  BY <1>0, <1>6, <1>a, <1>d, <1>f DEF AppendWal, ReadStep, TypeOK, InProgress, PCs
<1>7. CASE AppendFails(c)
  BY <1>0, <1>7, <1>a, <1>d, <1>f DEF AppendFails, ReadStep, TypeOK, InProgress, PCs
<1>8. CASE ApplyStaged(c)
  <2>1. MemGrows /\ SizesBounded'
    BY <1>8, <1>a, <1>e DEF ApplyStaged, InProgress, PCs
  <2> QED
    BY <1>0, <1>8, <1>a, <1>f, <2>1 DEF ApplyStaged, ReadStep, TypeOK, InProgress, PCs
<1>9. CASE BumpHead(c)
  <2>1. /\ UNCHANGED <<mem, est, kind, doc, promised, view, up>>
        /\ pc' = [pc EXCEPT ![c] = pc'[c]] /\ pc'[c] \in {"close", "relink"}
        /\ result' = [result EXCEPT ![c] = result'[c]]
    BY <1>0, <1>9 DEF BumpHead, RelinkOrReturn, TypeOK
  <2>2. \A e \in Calls \ {c} : pc'[e] = pc[e] /\ result'[e] = result[e] /\ view'[e] = view[e]
    BY <1>0, <2>1 DEF TypeOK
  <2>3. pc[c] = "bump"
    BY <1>9 DEF BumpHead
  <2> QED
    BY <1>a, <1>b, <1>d, <1>f, <2>1, <2>2, <2>3 DEF ReadStep, InProgress, PCs
<1>10. CASE PathConflict(c)
  BY <1>0, <1>10, <1>a, <1>d, <1>f DEF PathConflict, ReadStep, TypeOK, InProgress, PCs
<1>11. ASSUME NEW x \in Docs, Relink(c, x) PROVE ReadStep(c)
  <2>1. /\ UNCHANGED <<kind, doc, promised, view, up>>
        /\ pc' = [pc EXCEPT ![c] = pc'[c]] /\ pc'[c] \in {"close", "relink", "rewrite"}
        /\ result' = [result EXCEPT ![c] = result'[c]]
    BY <1>0, <1>11 DEF Relink, RelinkOrReturn, TypeOK
  <2>2. \A e \in Calls \ {c} : pc'[e] = pc[e] /\ result'[e] = result[e] /\ view'[e] = view[e]
    BY <1>0, <2>1 DEF TypeOK
  <2>3. pc[c] = "relink"
    BY <1>11 DEF Relink
  <2>4. MemGrows /\ SizesBounded'
    <3>1. CASE SubscribeOrCreate(c, x)
      BY <1>0, <3>1, SubscribeGrows
    <3>2. CASE UNCHANGED manager
      BY <1>d, <3>2
    <3> QED
      BY <1>11, <3>1, <3>2 DEF Relink
  <2> QED
    BY <1>a, <1>b, <1>f, <2>1, <2>2, <2>3, <2>4 DEF ReadStep, InProgress, PCs, Linking
<1>12. CASE RewriteLinks(c)
  <2>1. MemGrows /\ SizesBounded'
    BY <1>12, <1>c, <1>e DEF RewriteLinks, Linking
  <2> QED
    BY <1>0, <1>12, <1>a, <1>f, <2>1 DEF RewriteLinks, ReadStep, TypeOK, InProgress, PCs, Linking
<1>13. CASE NothingToRewrite(c)
  BY <1>0, <1>13, <1>a, <1>d, <1>f DEF NothingToRewrite, ReadStep, TypeOK, InProgress, PCs, Linking
<1>14. CASE Renumber(c)
  BY <1>0, <1>14, <1>a, <1>d, <1>f DEF Renumber, ReadStep, TypeOK, InProgress, PCs, Linking
<1>15. CASE Unlink(c)
  <2>1. /\ UNCHANGED <<kind, doc, promised, view, up>>
        /\ pc' = [pc EXCEPT ![c] = pc'[c]] /\ pc'[c] \in {"close", "relink"}
        /\ result' = [result EXCEPT ![c] = result'[c]]
    BY <1>0, <1>15 DEF Unlink, RelinkOrReturn, TypeOK
  <2>2. \A e \in Calls \ {c} : pc'[e] = pc[e] /\ result'[e] = result[e] /\ view'[e] = view[e]
    BY <1>0, <2>1 DEF TypeOK
  <2>3. pc[c] = "unlink"
    BY <1>15 DEF Unlink
  <2>4. MemGrows /\ SizesBounded'
    BY <1>0, <1>15, <1>c, <2>3, UnsubscribeGrows DEF Unlink, Linking
  <2> QED
    BY <1>a, <1>b, <1>f, <2>1, <2>2, <2>3, <2>4 DEF ReadStep, InProgress, PCs, Linking
<1>16. CASE EditSection(c)
  <2>1. MemGrows /\ SizesBounded'
    BY <1>16, <1>a, <1>e DEF EditSection, InProgress, PCs
  <2> QED
    BY <1>0, <1>16, <1>a, <2>1 DEF EditSection, ReadStep, TypeOK, InProgress, PCs
<1>17. CASE SectionMissing(c)
  BY <1>0, <1>17, <1>a, <1>d DEF SectionMissing, ReadStep, TypeOK, InProgress, PCs
<1>18. ASSUME NEW n \in Lens, SectionEtag(c, n) PROVE ReadStep(c)
  BY <1>0, <1>18, <1>a, <1>d, <1>f DEF SectionEtag, ReadStep, TypeOK, InProgress, PCs
<1> QED
  BY <1>1, <1>2, <1>3, <1>4, <1>5, <1>6, <1>7, <1>8, <1>9, <1>10, <1>11, <1>12, <1>13,
     <1>14, <1>15, <1>16, <1>17, <1>18 DEF CallNext

\* Recovery brings back every acknowledged edit: it is in the WAL.
LEMMA RecoverReads ==
    ASSUME MemoryAmple, UseInv, DurableInv, ReadInv, RecoverDocs
    PROVE  ReadInv'
<1> DEFINE size == [d \in Docs |-> IF d \in files THEN Bytes(wal[d]) ELSE 0]
           order == [d \in Docs |-> IF d \in files
                                    THEN Cardinality({k \in files : k <= d}) ELSE 0]
           none == [d \in Docs |-> {}]
<1>0. TypeOK
  BY DEF UseInv
<1>1. \A S \in SUBSET Docs : Cardinality(S) \in Nat
  BY FS_Subset, FS_CardinalityType
<1>2. size \in [Docs -> 0..Bytes(Calls)] /\ order \in [Docs -> Nat] /\ files \in SUBSET Docs
  <2>1. \A d \in Docs : Bytes(wal[d]) \in 0..Bytes(Calls)
    BY <1>0, BytesBounded DEF TypeOK
  <2>2. \A d \in Docs : {k \in files : k <= d} \in SUBSET Docs
    BY <1>0 DEF TypeOK
  <2>3. 0 \in 0..Bytes(Calls)
    BY BytesNat
  <2> QED
    BY <1>0, <1>1, <2>1, <2>2, <2>3 DEF TypeOK
<1>3. none \in [Docs -> SUBSET Calls] /\ wal \in [Docs -> SUBSET Calls]
  BY <1>0 DEF TypeOK
<1>4. ManagerBecomes(files, wal, none, size, order)
  BY DEF RecoverDocs
<1>5. mem' = wal /\ est' = size
  <2> HIDE DEF size, order, none
  <2> QED
    BY <1>2, <1>3, <1>4, NothingEvicted
<1>6. UNCHANGED callVars /\ \A c \in Calls : pc[c] \notin InProgress
  BY DEF UseInv, CallShape, RecoverDocs
<1>7. SizesBounded'
  BY <1>2, <1>5 DEF SizesBounded
<1>8. AckedInMem'
  BY <1>5, <1>6 DEF AckedInMem, DurableInv, ResultLogged, callVars, request
<1>9. PromisedInMem'
  BY <1>6 DEF PromisedInMem, callVars, request, InProgress, PCs
<1>10. ReadSeesAcked'
  BY <1>6 DEF ReadInv, ReadSeesAcked, callVars, request
<1> QED
  BY <1>7, <1>8, <1>9, <1>10 DEF ReadInv

\* Every step of the daemon preserves ReadInv.
LEMMA ReadsStep ==
    ASSUME MemoryAmple, UseInv, DurableInv, ReadInv, [Next]_vars
    PROVE  ReadInv'
<1>1. ASSUME NEW c \in Calls, CallNext(c) PROVE ReadInv'
  BY <1>1, BeginReads, CallReads, ReadStepKeeps
<1>2. CASE Crash
  <2>1. /\ up' = FALSE /\ est' = [d \in Docs |-> 0]
        /\ UNCHANGED <<kind, doc, promised, view, result>>
        /\ \A c \in Calls : pc'[c] # "open"
    BY <1>2 DEF Crash, request, InProgress, PCs
  <2>2. 0 \in 0..Bytes(Calls)
    BY BytesNat
  <2> QED
    BY <2>1, <2>2 DEF ReadInv, SizesBounded, AckedInMem, PromisedInMem, ReadSeesAcked
<1>3. CASE RecoverDocs
  BY <1>3, RecoverReads
<1>4. CASE UNCHANGED vars
  BY <1>4 DEF vars, manager, callVars, request, process, ReadInv, SizesBounded, AckedInMem,
              PromisedInMem, ReadSeesAcked
<1> QED
  BY <1>1, <1>2, <1>3, <1>4 DEF Next

\* A read returns every doc.edit that was acknowledged before the read was
\* made, through any number of crashes and with any calls in between, where
\* no frame is lost by the WAL and memory never runs out.
THEOREM ReadSeesAckedHolds ==
    ASSUME WalReliable, MemoryAmple
    PROVE  Spec => []ReadSeesAcked
<1>1. Init => UseInv /\ DurableInv /\ ReadInv
  <2>1. 0 \in 0..Bytes(Calls)
    BY BytesNat
  <2>2. Init => ReadInv
    BY <2>1 DEF Init, ReadInv, SizesBounded, AckedInMem, PromisedInMem, ReadSeesAcked
  <2> QED
    BY <2>2, UseInit, DurableInit
<1>2. UseInv /\ DurableInv /\ ReadInv /\ [Next]_vars => (UseInv /\ DurableInv /\ ReadInv)'
  BY UseStep, DurableStep, ReadsStep
<1>3. ReadInv => ReadSeesAcked
  BY DEF ReadInv
<1> QED
  BY <1>1, <1>2, <1>3, PTL DEF Spec
=============================================================================
