------------------------- MODULE MpsKernelSyncProofs -------------------------
(***************************************************************************)
(* Proofs about MpsKernelSync: conflicting kernels run in the order they   *)
(* were submitted, the tokens cover the kernels that used a storage or a   *)
(* buffer, and a fence is free only when its last update has happened, for *)
(* any number of queues, fences, storages, buffers and kernels.            *)
(*                                                                         *)
(* The inductive invariant rests on one idea.  A command buffer "covers" an*)
(* earlier one when its completion implies the completion of the earlier   *)
(* one: on the same queue because the queue is first-in first-out, across  *)
(* queues because both write one storage and so are ordered already.  The  *)
(* tokens need only keep one covering fence for each kernel they forgot.   *)
(***************************************************************************)
EXTENDS MpsKernelSync, TLAPS, WellFoundedInduction

(***************************************************************************)
(* The inductive invariant.                                                *)
(***************************************************************************)

CommandBuffer == [queue : Queue, waits : SUBSET (1 .. MaxKernels),
                  uses : SUBSET (Storage \X Buffer \X Access),
                  tracked : BOOLEAN, status : {"encoding", "committed", "done"}]
FenceState == [cb : 0 .. MaxKernels, queue : Queue \union {None}, updated : 0 .. MaxKernels]
Lease == Fence \union {None}
RegistryState == [leases : Seq(Lease), head : Nat]
Token == [state : {"unbuilt", "live", "dropped"}, buffer : Buffer \union {None},
          write : Lease, reads : Seq(Lease)]
Hazard == [queue : Queue, cb : 0 .. MaxKernels]

TypeInv ==
    /\ cbs \in Seq(CommandBuffer)
    /\ Len(cbs) <= MaxKernels
    /\ fences \in [Fence -> FenceState]
    /\ registry \in [Queue -> RegistryState]
    /\ storages \in [Storage -> Token]
    /\ buffers \in [Buffer -> Seq(Hazard)]
    /\ session \in [step : {"idle", "wait", "update", "finish"}, kernel : Kernel \union {<<>>}]
    /\ \A s \in Storage : storages[s].state = "live" => storages[s].buffer \in Buffer

Done(i) == cbs[i].status = "done"

\* What a command buffer does to a storage and to a buffer.
ReadsFrom(i, s) == \E u \in cbs[i].uses : u[1] = s /\ Reads(u[3])
WritesTo(i, s) == \E u \in cbs[i].uses : u[1] = s /\ Writes(u[3])
Touches(i, b) == \E u \in cbs[i].uses : u[2] = b

\* A kernel function in progress encodes the last command buffer, for a kernel
\* whose storages stay alive.
SessionInv ==
    ~Idle =>
      /\ cbs # <<>>
      /\ cbs[Current].status = "encoding"
      /\ session.kernel \in Kernel
      /\ \A x \in DOMAIN session.kernel :
           /\ storages[session.kernel[x].storage].state = "live"
           /\ \E u \in cbs[Current].uses :
                u[1] = session.kernel[x].storage /\ u[3] = session.kernel[x].access
      /\ \A u \in cbs[Current].uses : \E x \in DOMAIN session.kernel :
           u[1] = session.kernel[x].storage /\ u[3] = session.kernel[x].access

\* Only storages that were built have been used.
UsedBuilt ==
    \A i \in DOMAIN cbs : \A u \in cbs[i].uses : storages[u[1]].state # "unbuilt"

\* The command buffers of a queue complete in order.
QueueInOrder ==
    \A i, j \in DOMAIN cbs : (i < j /\ cbs[i].queue = cbs[j].queue /\ Done(j)) => Done(i)

\* A fence that is bound is bound to the command buffer that last updated it,
\* which is on the queue of the fence and in whose registry the fence is; one
\* that is not bound was last updated by a command buffer that is done.
FenceBinding(f) ==
    /\ fences[f].cb # 0 =>
         /\ fences[f].cb = fences[f].updated
         /\ \E q \in Queue : /\ q = fences[f].queue
                             /\ \E x \in Active(registry[q]) : registry[q].leases[x] = f
    /\ fences[f].updated # 0 =>
         /\ fences[f].updated \in DOMAIN cbs
         /\ cbs[fences[f].updated].queue = fences[f].queue
         /\ cbs[fences[f].updated].tracked
    /\ fences[f].cb = 0 => Finished(fences[f].updated)

FencesBound == \A f \in Fence : FenceBinding(f)

\* A registry holds fences of its queue in the order of their updates.
RegistryInOrder(q) ==
    LET reg == registry[q]
    IN  /\ reg.head <= Len(reg.leases)
        /\ reg.head # 0 => reg.head < Len(reg.leases) \div 2
        /\ \A x \in DOMAIN reg.leases : x <= reg.head => reg.leases[x] = None
        /\ \A x \in Active(reg) :
             /\ reg.leases[x] \in Fence
             /\ fences[reg.leases[x]].queue = q
             /\ fences[reg.leases[x]].updated # 0
        /\ \A x, y \in Active(reg) :
             x < y => fences[reg.leases[x]].updated <= fences[reg.leases[y]].updated

RegistriesInOrder == \A q \in Queue : RegistryInOrder(q)

\* Every kernel that read a storage and is not done is covered by a read fence
\* of its queue.
ReadCovered(s, i) ==
    \/ Done(i)
    \/ \E x \in DOMAIN storages[s].reads :
         LET f == storages[s].reads[x]
         IN  f \in Fence /\ fences[f].queue = cbs[i].queue /\ fences[f].updated >= i

ReadsCovered ==
    \A s \in Storage : storages[s].state = "live" =>
      \A i \in DOMAIN cbs : (cbs[i].tracked /\ ReadsFrom(i, s)) => ReadCovered(s, i)

\* Every kernel that wrote a storage and is not done is covered by the write
\* fence, updated by a kernel that wrote the storage too.
WriteCovered(s, i) ==
    \/ Done(i)
    \/ LET f == storages[s].write
       IN  f \in Fence /\ fences[f].updated >= i /\ WritesTo(fences[f].updated, s)

WritesCovered ==
    \A s \in Storage : storages[s].state = "live" =>
      \A i \in DOMAIN cbs : (cbs[i].tracked /\ WritesTo(i, s)) => WriteCovered(s, i)

\* What the encoder of a command buffer waits for covers every earlier kernel
\* it conflicts with.
Waiting(k) == session.step = "wait" /\ k = Current

WaitsForReaders(k) ==
    \A s \in Storage, i \in DOMAIN cbs :
      (WritesTo(k, s) /\ i < k /\ cbs[i].tracked /\ ReadsFrom(i, s)) =>
        \/ Done(i)
        \/ \E w \in cbs[k].waits : w >= i /\ cbs[w].queue = cbs[i].queue

WaitsForWriters(k) ==
    \A s \in Storage, i \in DOMAIN cbs :
      ((ReadsFrom(k, s) \/ WritesTo(k, s)) /\ i < k /\ cbs[i].tracked /\ WritesTo(i, s)) =>
        \/ Done(i)
        \/ \E w \in cbs[k].waits : w >= i /\ WritesTo(w, s)

WaitsCover ==
    \A k \in DOMAIN cbs :
      /\ \A w \in cbs[k].waits : w \in DOMAIN cbs /\ cbs[w].tracked
      /\ ~Waiting(k) => WaitsForReaders(k) /\ WaitsForWriters(k)

\* The reuse token of a buffer covers every kernel that used the buffer.
HazardCovered(b, i) ==
    \E x \in DOMAIN buffers[b] : buffers[b][x].queue = cbs[i].queue /\ buffers[b][x].cb >= i

HazardsCover ==
    \A b \in Buffer :
      /\ \A x \in DOMAIN buffers[b] :
           LET h == buffers[b][x] IN h.cb \in DOMAIN cbs /\ cbs[h.cb].queue = h.queue
      /\ \A i \in DOMAIN cbs : (cbs[i].tracked /\ Touches(i, b)) => HazardCovered(b, i)

IInv ==
    /\ TypeInv /\ SessionInv /\ UsedBuilt /\ QueueInOrder /\ ConflictsOrdered
    /\ FencesBound /\ RegistriesInOrder /\ ReadsCovered /\ WritesCovered
    /\ WaitsCover /\ HazardsCover

(***************************************************************************)
(* Least and greatest elements.                                            *)
(***************************************************************************)

LEMMA MinOfNats ==
    ASSUME NEW S \in SUBSET Nat, S # {}
    PROVE  Min(S) \in S /\ \A x \in S : Min(S) <= x
<1>1. PICK x \in S : \A y \in S : <<y, x>> \notin OpToRel(<, Nat)
  <2> HIDE DEF OpToRel
  <2> QED BY NatLessThanWellFounded, WFMin, Zenon
<1>2. ASSUME NEW y \in S PROVE x <= y
  <2>1. x \in Nat /\ y \in Nat
    OBVIOUS
  <2>2. <<y, x>> \in {ss \in Nat \X Nat : ss[1] < ss[2]} <=> y < x
    BY <2>1
  <2>3. <<y, x>> \notin {ss \in Nat \X Nat : ss[1] < ss[2]}
    BY <1>1, Zenon DEF OpToRel
  <2> QED BY <2>1, <2>2, <2>3
<1> QED BY <1>2 DEF Min

\* The largest element of a finite set of numbers.
LEMMA MaxOfNats ==
    ASSUME NEW n \in Nat, NEW S \in SUBSET (0 .. n), S # {}
    PROVE  Max(S) \in S /\ \A x \in S : x <= Max(S)
<1> DEFINE T == {n - x : x \in S}
<1>1. T \in SUBSET Nat
  <2> SUFFICES ASSUME NEW x \in S PROVE n - x \in Nat
    OBVIOUS
  <2>1. x \in 0 .. n
    OBVIOUS
  <2> QED BY <2>1
<1>2. T # {}
  OBVIOUS
<1>3. Min(T) \in T /\ \A y \in T : Min(T) <= y
  <2> HIDE DEF T
  <2> QED BY <1>1, <1>2, MinOfNats
<1>4. PICK m \in S : Min(T) = n - m
  BY <1>3
<1>5. ASSUME NEW x \in S PROVE x <= m
  <2>1. x \in 0 .. n /\ m \in 0 .. n
    OBVIOUS
  <2>2. n - x \in T
    OBVIOUS
  <2>3. n - m <= n - x
    <3> HIDE DEF T
    <3> QED BY <2>2, <1>3, <1>4
  <2> QED BY <2>1, <2>3
<1>6. \A x \in S : x \in Nat
  OBVIOUS
<1> QED BY <1>5, <1>6 DEF Max

(***************************************************************************)
(* What the operators on sequences, tokens and registries return.          *)
(***************************************************************************)

LEMMA SeqReplace ==
    ASSUME NEW S, NEW s \in Seq(S), NEW i \in DOMAIN s, NEW e \in S
    PROVE  /\ [s EXCEPT ![i] = e] \in Seq(S)
           /\ Len([s EXCEPT ![i] = e]) = Len(s)
           /\ DOMAIN [s EXCEPT ![i] = e] = DOMAIN s
           /\ [s EXCEPT ![i] = e][i] = e
           /\ \A j \in DOMAIN s : j # i => [s EXCEPT ![i] = e][j] = s[j]
  OBVIOUS

\* The entries of a sequence with one appended.
LEMMA SeqAppend ==
    ASSUME NEW S, NEW s \in Seq(S), NEW e \in S
    PROVE  /\ Append(s, e) \in Seq(S)
           /\ Len(Append(s, e)) = Len(s) + 1
           /\ DOMAIN Append(s, e) = DOMAIN s \union {Len(s) + 1}
           /\ Append(s, e)[Len(s) + 1] = e
           /\ \A j \in DOMAIN s : Append(s, e)[j] = s[j]
  OBVIOUS

\* The entries of a suffix.
LEMMA SeqSuffix ==
    ASSUME NEW S, NEW s \in Seq(S), NEW h \in 0 .. Len(s) - 1
    PROVE  /\ SubSeq(s, h + 1, Len(s)) \in Seq(S)
           /\ Len(SubSeq(s, h + 1, Len(s))) = Len(s) - h
           /\ \A x \in 1 .. Len(SubSeq(s, h + 1, Len(s))) :
                SubSeq(s, h + 1, Len(s))[x] = s[x + h]
<1>1. /\ SubSeq(s, h + 1, Len(s)) \in Seq(S)
      /\ Len(SubSeq(s, h + 1, Len(s))) = Len(s) - h
  OBVIOUS
<1>2. \A x \in 1 .. Len(s) - h : SubSeq(s, h + 1, Len(s))[x] = s[x + h]
  OBVIOUS
<1> QED BY <1>1, <1>2

\* addReadFence puts the fence in the token and replaces none of another queue.
LEMMA AddReadFenceEffect ==
    ASSUME NEW token \in Token, NEW f \in Fence, NEW fs \in [Fence -> FenceState],
           NEW t, t = AddReadFence(token, f, fs)
    PROVE  /\ t \in Token
           /\ t.state = token.state /\ t.buffer = token.buffer /\ t.write = token.write
           /\ \E x \in DOMAIN t.reads : t.reads[x] = f
           /\ \A x \in DOMAIN token.reads :
                /\ x \in DOMAIN t.reads
                /\ \/ t.reads[x] = token.reads[x]
                   \/ /\ t.reads[x] = f /\ token.reads[x] \in Fence
                      /\ fs[token.reads[x]].queue = fs[f].queue
<1> DEFINE same == {i \in DOMAIN token.reads :
                      token.reads[i] # None /\ fs[token.reads[i]].queue = fs[f].queue}
<1>0. token.reads \in Seq(Lease) /\ f \in Lease
  BY DEF Token, Lease
<1>1. CASE same # {}
  <2>1. same \in SUBSET Nat
    BY <1>0
  <2>2. Min(same) \in same
    <3> HIDE DEF same
    <3> QED BY <1>1, <2>1, MinOfNats
  <2> DEFINE m == Min(same)
  <2>3. m \in DOMAIN token.reads /\ token.reads[m] # None /\ fs[token.reads[m]].queue = fs[f].queue
    BY <2>2
  <2>4. t = [token EXCEPT !.reads[m] = f]
    BY <1>1 DEF AddReadFence
  <2> HIDE DEF m, same
  <2>5. t.reads = [token.reads EXCEPT ![m] = f]
    BY <2>4 DEF Token
  <2>6. /\ t.reads \in Seq(Lease) /\ DOMAIN t.reads = DOMAIN token.reads
        /\ t.reads[m] = f /\ \A j \in DOMAIN token.reads : j # m => t.reads[j] = token.reads[j]
    BY <1>0, <2>3, <2>5, SeqReplace
  <2>7. token.reads[m] \in Fence
    BY <1>0, <2>3 DEF Lease
  <2>8. t \in Token /\ t.state = token.state /\ t.buffer = token.buffer /\ t.write = token.write
    BY <2>4, <2>6 DEF Token
  <2> QED BY <2>3, <2>6, <2>7, <2>8
<1>2. CASE same = {}
  <2>1. t = [token EXCEPT !.reads = Append(@, f)]
    BY <1>2 DEF AddReadFence
  <2>2. t.reads = Append(token.reads, f)
    BY <2>1 DEF Token
  <2>3. /\ t.reads \in Seq(Lease) /\ DOMAIN t.reads = DOMAIN token.reads \union {Len(token.reads) + 1}
        /\ t.reads[Len(token.reads) + 1] = f
        /\ \A j \in DOMAIN token.reads : t.reads[j] = token.reads[j]
    BY <1>0, <2>2, SeqAppend
  <2>4. t \in Token /\ t.state = token.state /\ t.buffer = token.buffer /\ t.write = token.write
    BY <2>1, <2>3 DEF Token
  <2> QED BY <2>3, <2>4
<1> QED BY <1>1, <1>2

\* Token t is the token with fence f put in for the accesses.
TokenUpdated(t, token, accesses, f, fs) ==
    /\ t \in Token
    /\ t.state = token.state /\ t.buffer = token.buffer
    /\ t.write = IF \E a \in accesses : Writes(a) THEN f ELSE token.write
    /\ (\E a \in accesses : Reads(a)) => \E x \in DOMAIN t.reads : t.reads[x] = f
    /\ \A x \in DOMAIN token.reads :
         /\ x \in DOMAIN t.reads
         /\ \/ t.reads[x] = token.reads[x]
            \/ /\ t.reads[x] = f /\ token.reads[x] \in Fence
               /\ fs[token.reads[x]].queue = fs[f].queue

\* What a kernel leaves in the fence token of a storage it used.
LEMMA UpdatedTokenEffect ==
    ASSUME NEW token \in Token, NEW accesses, NEW f \in Fence, NEW fs \in [Fence -> FenceState]
    PROVE  TokenUpdated(UpdatedToken(token, accesses, f, fs), token, accesses, f, fs)
<1> SUFFICES ASSUME NEW t, t = UpdatedToken(token, accesses, f, fs)
             PROVE  TokenUpdated(t, token, accesses, f, fs)
  OBVIOUS
<1> DEFINE read == IF \E a \in accesses : Reads(a) THEN AddReadFence(token, f, fs) ELSE token
<1>1. /\ read \in Token
      /\ read.state = token.state /\ read.buffer = token.buffer /\ read.write = token.write
      /\ (\E a \in accesses : Reads(a)) => \E x \in DOMAIN read.reads : read.reads[x] = f
      /\ \A x \in DOMAIN token.reads :
           /\ x \in DOMAIN read.reads
           /\ \/ read.reads[x] = token.reads[x]
              \/ /\ read.reads[x] = f /\ token.reads[x] \in Fence
                 /\ fs[token.reads[x]].queue = fs[f].queue
  BY AddReadFenceEffect
<1>2. t = IF \E a \in accesses : Writes(a) THEN SetWriteFence(read, f) ELSE read
  BY DEF UpdatedToken
<1> HIDE DEF read
<1>3. CASE \E a \in accesses : Writes(a)
  <2>1. t = [read EXCEPT !.write = f]
    BY <1>2, <1>3 DEF SetWriteFence
  <2>2. /\ t \in Token /\ t.state = read.state /\ t.buffer = read.buffer /\ t.write = f
        /\ t.reads = read.reads
    BY <1>1, <2>1 DEF Token, Lease
  <2> QED BY <1>1, <1>3, <2>2 DEF TokenUpdated
<1>4. CASE ~ \E a \in accesses : Writes(a)
  BY <1>1, <1>2, <1>4 DEF TokenUpdated
<1> QED BY <1>3, <1>4

\* addOrReplaceHazard puts the hazard in the token and replaces at most one of
\* its queue.
HazardAdded(r, hs, h) ==
    /\ r \in Seq(Hazard)
    /\ \E x \in DOMAIN r : r[x] = h
    /\ \A x \in DOMAIN r : r[x] = h \/ (x \in DOMAIN hs /\ r[x] = hs[x])
    /\ \A x \in DOMAIN hs :
         x \in DOMAIN r /\ (r[x] = hs[x] \/ (r[x] = h /\ hs[x].queue = h.queue))

\* addOrReplaceHazard keeps one hazard per queue.
LEMMA AddOrReplaceHazardEffect ==
    ASSUME NEW hs \in Seq(Hazard), NEW h \in Hazard
    PROVE  HazardAdded(AddOrReplaceHazard(hs, h), hs, h)
<1> SUFFICES ASSUME NEW r, r = AddOrReplaceHazard(hs, h)
             PROVE  HazardAdded(r, hs, h)
  OBVIOUS
<1> DEFINE same == {i \in DOMAIN hs : hs[i].queue = h.queue}
<1>1. CASE same # {}
  <2>1. same \in SUBSET Nat
    OBVIOUS
  <2>2. Min(same) \in same
    <3> HIDE DEF same
    <3> QED BY <1>1, <2>1, MinOfNats
  <2> DEFINE m == Min(same)
  <2>3. m \in DOMAIN hs /\ hs[m].queue = h.queue
    BY <2>2
  <2>4. r = [hs EXCEPT ![m] = h]
    BY <1>1 DEF AddOrReplaceHazard
  <2> HIDE DEF m, same
  <2>5. /\ r \in Seq(Hazard) /\ DOMAIN r = DOMAIN hs
        /\ r[m] = h /\ \A j \in DOMAIN hs : j # m => r[j] = hs[j]
    BY <2>3, <2>4, SeqReplace
  <2> QED BY <2>3, <2>5 DEF HazardAdded
<1>2. CASE same = {}
  <2>1. r = Append(hs, h)
    BY <1>2 DEF AddOrReplaceHazard
  <2>2. /\ r \in Seq(Hazard) /\ DOMAIN r = DOMAIN hs \union {Len(hs) + 1}
        /\ r[Len(hs) + 1] = h /\ \A j \in DOMAIN hs : r[j] = hs[j]
    BY <2>1, SeqAppend
  <2> QED BY <2>2 DEF HazardAdded
<1> QED BY <1>1, <1>2

\* Registry r is reg without d leases at the front, all of them released, and
\* with fewer than half of its leases released.
Compacted(r, reg) ==
    /\ r \in RegistryState
    /\ r.head # 0 => r.head < Len(r.leases) \div 2
    /\ \E d \in 0 .. reg.head :
         /\ r.head = reg.head - d
         /\ Len(r.leases) = Len(reg.leases) - d
         /\ \A x \in 1 .. Len(r.leases) : r.leases[x] = reg.leases[x + d]

\* Compaction drops leading entries and keeps the others.
LEMMA CompactEffect ==
    ASSUME NEW reg \in RegistryState, reg.head <= Len(reg.leases)
    PROVE  Compacted(CompactIfNeeded(reg), reg)
<1> SUFFICES ASSUME NEW r, r = CompactIfNeeded(reg)
             PROVE  Compacted(r, reg)
  OBVIOUS
<1>0. reg.leases \in Seq(Lease) /\ reg.head \in Nat /\ Len(reg.leases) \in Nat
  BY DEF RegistryState
<1>1. CASE reg.head = 0
  <2>1. r = reg
    BY <1>1 DEF CompactIfNeeded
  <2>2. /\ 0 \in 0 .. reg.head /\ r.head = reg.head - 0
        /\ Len(r.leases) = Len(reg.leases) - 0
        /\ \A x \in 1 .. Len(r.leases) : r.leases[x] = reg.leases[x + 0]
    BY <1>0, <2>1
  <2> QED BY <1>0, <1>1, <2>1, <2>2 DEF Compacted
<1>2. CASE reg.head # 0 /\ reg.head >= Len(reg.leases)
  <2>1. r = [leases |-> <<>>, head |-> 0]
    BY <1>0, <1>2 DEF CompactIfNeeded, EmptyRegistry
  <2>2. /\ reg.head \in 0 .. reg.head /\ r.head = reg.head - reg.head
        /\ Len(r.leases) = Len(reg.leases) - reg.head
        /\ \A x \in 1 .. Len(r.leases) : r.leases[x] = reg.leases[x + reg.head]
    BY <1>0, <1>2, <2>1
  <2>3. r \in RegistryState /\ r.head = 0
    BY <2>1 DEF RegistryState
  <2> QED BY <2>2, <2>3 DEF Compacted
<1>3. CASE reg.head # 0 /\ reg.head < Len(reg.leases) /\ reg.head < Len(reg.leases) \div 2
  <2>1. r = reg
    BY <1>0, <1>3 DEF CompactIfNeeded
  <2>2. /\ 0 \in 0 .. reg.head /\ r.head = reg.head - 0
        /\ Len(r.leases) = Len(reg.leases) - 0
        /\ \A x \in 1 .. Len(r.leases) : r.leases[x] = reg.leases[x + 0]
    BY <1>0, <2>1
  <2> QED BY <1>0, <1>3, <2>1, <2>2 DEF Compacted
<1>4. CASE reg.head # 0 /\ reg.head < Len(reg.leases) /\ ~(reg.head < Len(reg.leases) \div 2)
  <2> DEFINE tail == SubSeq(reg.leases, reg.head + 1, Len(reg.leases))
  <2>1. r = [leases |-> tail, head |-> 0]
    BY <1>0, <1>4 DEF CompactIfNeeded
  <2>2. /\ tail \in Seq(Lease) /\ Len(tail) = Len(reg.leases) - reg.head
        /\ \A x \in 1 .. Len(tail) : tail[x] = reg.leases[x + reg.head]
    BY <1>0, <1>4, SeqSuffix, reg.head \in 0 .. Len(reg.leases) - 1
  <2> HIDE DEF tail
  <2>3. r \in RegistryState /\ r.head = 0 /\ r.leases = tail
    BY <2>1, <2>2 DEF RegistryState
  <2>4. reg.head \in 0 .. reg.head /\ r.head = reg.head - reg.head
    BY <1>0, <2>3
  <2> QED BY <2>2, <2>3, <2>4 DEF Compacted
<1>5. reg.head >= Len(reg.leases) \/ reg.head < Len(reg.leases)
  BY <1>0
<1> QED BY <1>1, <1>2, <1>3, <1>4, <1>5, Zenon

\* Registry r is reg released through end, with its first leases dropped.
ReleasedThrough(r, reg, end) ==
    /\ r \in RegistryState
    /\ r.head # 0 => r.head < Len(r.leases) \div 2
    /\ \E d \in 0 .. end :
         /\ r.head = end - d
         /\ Len(r.leases) = Len(reg.leases) - d
         /\ \A x \in 1 .. Len(r.leases) :
              r.leases[x] = IF x + d <= end THEN None ELSE reg.leases[x + d]

\* Releasing up to an entry empties the ones before it and no other.
LEMMA ReleaseThroughEffect ==
    ASSUME NEW reg \in RegistryState, NEW end \in 0 .. Len(reg.leases)
    PROVE  ReleasedThrough(ReleaseThrough(reg, end), reg, end)
<1> DEFINE ls == [i \in DOMAIN reg.leases |-> IF i <= end THEN None ELSE reg.leases[i]]
           cleared == [leases |-> ls, head |-> end]
           r == ReleaseThrough(reg, end)
<1>0. reg.leases \in Seq(Lease) /\ Len(reg.leases) \in Nat
  BY DEF RegistryState
<1>1. ls \in Seq(Lease) /\ Len(ls) = Len(reg.leases)
  BY <1>0 DEF Lease
<1>2. ASSUME NEW x \in 1 .. Len(reg.leases)
      PROVE  ls[x] = IF x <= end THEN None ELSE reg.leases[x]
  BY <1>0
<1> HIDE DEF ls
<1>3. cleared \in RegistryState /\ cleared.leases = ls /\ cleared.head = end
  BY <1>0, <1>1 DEF RegistryState
<1>4. r = CompactIfNeeded(cleared)
  BY DEF ReleaseThrough, ls
<1> HIDE DEF cleared, r
<1>5. cleared.head <= Len(cleared.leases)
  BY <1>0, <1>1, <1>3
<1>6. /\ r \in RegistryState
      /\ r.head # 0 => r.head < Len(r.leases) \div 2
      /\ \E d \in 0 .. cleared.head :
           /\ r.head = cleared.head - d
           /\ Len(r.leases) = Len(cleared.leases) - d
           /\ \A x \in 1 .. Len(r.leases) : r.leases[x] = cleared.leases[x + d]
  <2>1. Compacted(r, cleared)
    BY <1>3, <1>4, <1>5, CompactEffect
  <2> QED BY <2>1 DEF Compacted
<1>7. PICK d \in 0 .. end :
           /\ r.head = end - d
           /\ Len(r.leases) = Len(reg.leases) - d
           /\ \A x \in 1 .. Len(r.leases) : r.leases[x] = ls[x + d]
  BY <1>1, <1>3, <1>6
<1>8. ASSUME NEW x \in 1 .. Len(r.leases)
      PROVE  r.leases[x] = IF x + d <= end THEN None ELSE reg.leases[x + d]
  <2>1. x + d \in 1 .. Len(reg.leases)
    BY <1>0, <1>7
  <2>2. r.leases[x] = ls[x + d]
    BY <1>7
  <2> QED BY <1>2, <2>1, <2>2
<1>9. ReleasedThrough(r, reg, end)
  BY <1>6, <1>7, <1>8 DEF ReleasedThrough
<1> QED BY <1>9 DEF r

\* The fence token of a storage just built is empty.
LEMMA BuiltToken ==
    ASSUME NEW b \in Buffer
    PROVE  [EmptyToken EXCEPT !.state = "live", !.buffer = b] =
             [state |-> "live", buffer |-> b, write |-> None, reads |-> <<>>]
<1> DEFINE live == [state |-> "live", buffer |-> None, write |-> None, reads |-> <<>>]
<1>1. [EmptyToken EXCEPT !.state = "live"] = live
  BY DEF EmptyToken
<1>2. [live EXCEPT !.buffer = b] =
        [state |-> "live", buffer |-> b, write |-> None, reads |-> <<>>]
  OBVIOUS
<1>3. [EmptyToken EXCEPT !.state = "live", !.buffer = b] =
        [[EmptyToken EXCEPT !.state = "live"] EXCEPT !.buffer = b]
  OBVIOUS
<1> QED BY <1>1, <1>2, <1>3

\* The threshold of the compaction grows with the registry.
LEMMA HalfGrows ==
    ASSUME NEW n \in Nat
    PROVE  n \div 2 <= (n + 1) \div 2 /\ n \div 2 \in Nat /\ (n + 1) \div 2 \in Nat
  OBVIOUS

(***************************************************************************)
(* What the actions do to the command buffers.                             *)
(***************************************************************************)

\* The queue and the uses of a command buffer never change, and what happened
\* to it stays so.
CbsEvolve ==
    /\ cbs' \in Seq(CommandBuffer) /\ Len(cbs') <= MaxKernels
    /\ \A i \in DOMAIN cbs :
         /\ i \in DOMAIN cbs'
         /\ cbs'[i].queue = cbs[i].queue /\ cbs'[i].uses = cbs[i].uses
         /\ cbs[i].tracked => cbs'[i].tracked
         /\ Done(i) => Done(i)'

\* Only the command buffer c changes.
OnlyChanges(c) ==
    /\ cbs' \in Seq(CommandBuffer) /\ Len(cbs') = Len(cbs) /\ DOMAIN cbs' = DOMAIN cbs
    /\ \A i \in DOMAIN cbs : i # c => cbs'[i] = cbs[i]
    /\ cbs'[c].queue = cbs[c].queue /\ cbs'[c].uses = cbs[c].uses

\* A kernel function in progress encodes the last command buffer.
LEMMA CurrentInDomain ==
    ASSUME TypeInv, SessionInv, ~Idle
    PROVE  /\ Current \in DOMAIN cbs /\ Current \in Nat \ {0} /\ cbs[Current] \in CommandBuffer
           /\ cbs[Current].status = "encoding" /\ session.kernel \in Seq(Field)
           /\ \A i \in DOMAIN cbs : i <= Current
  BY MpsKernelSyncConstants DEF TypeInv, SessionInv, Current

\* What a kernel waits for are fences.
LEMMA DependencyFencesType ==
    ASSUME TypeInv, NEW field \in Field
    PROVE  DependencyFences(field) \in SUBSET Fence
<1>1. storages[field.storage] \in Token
  BY DEF TypeInv, Field
<1>2. storages[field.storage].write \in Lease /\ storages[field.storage].reads \in Seq(Lease)
  BY <1>1 DEF Token
<1>3. ToSet(storages[field.storage].reads) \in SUBSET Lease
  BY <1>2 DEF ToSet
<1> QED BY <1>2, <1>3 DEF DependencyFences, Lease

\* What a kernel uses is on live storages and their buffers.
LEMMA UsesType ==
    ASSUME TypeInv, NEW k \in Kernel, \A i \in DOMAIN k : storages[k[i].storage].state = "live"
    PROVE  Uses(k) \in SUBSET (Storage \X Buffer \X Access)
<1>1. k \in Seq(Field)
  BY MpsKernelSyncConstants
<1>2. ASSUME NEW i \in DOMAIN k
      PROVE  <<k[i].storage, storages[k[i].storage].buffer, k[i].access>>
               \in Storage \X Buffer \X Access
  <2>1. k[i] \in Field
    BY <1>1
  <2>2. k[i].storage \in Storage /\ k[i].access \in Access
    BY <2>1 DEF Field
  <2>3. storages[k[i].storage].buffer \in Buffer
    BY <2>2 DEF TypeInv
  <2> QED BY <2>2, <2>3
<1> QED BY <1>2 DEF Uses

\* A kernel function opens a new command buffer.
LEMMA BeginEffect ==
    ASSUME TypeInv, NEW q \in Queue, NEW k \in Kernel, Begin(q, k)
    PROVE  /\ cbs' \in Seq(CommandBuffer) /\ Len(cbs') = Len(cbs) + 1 /\ Len(cbs') <= MaxKernels
           /\ DOMAIN cbs' = DOMAIN cbs \union {Len(cbs) + 1}
           /\ \A i \in DOMAIN cbs : cbs'[i] = cbs[i]
           /\ LET new == cbs'[Len(cbs) + 1]
              IN  /\ new.queue = q /\ new.waits = {} /\ new.uses = Uses(k)
                  /\ new.tracked = FALSE /\ new.status = "encoding"
           /\ \A i \in DOMAIN cbs : i < Len(cbs) + 1
<1> DEFINE new == [queue |-> q, waits |-> {}, uses |-> Uses(k), tracked |-> FALSE,
                   status |-> "encoding"]
<1>1. Uses(k) \in SUBSET (Storage \X Buffer \X Access)
  BY UsesType DEF Begin
<1>2. new \in CommandBuffer
  BY <1>1 DEF CommandBuffer
<1>3. cbs' = Append(cbs, new) /\ Len(cbs) < MaxKernels
  BY DEF Begin
<1>4. cbs \in Seq(CommandBuffer) /\ Len(cbs) \in Nat /\ MaxKernels \in Nat
  BY MpsKernelSyncConstants DEF TypeInv
<1>5. /\ new.queue = q /\ new.waits = {} /\ new.uses = Uses(k)
      /\ new.tracked = FALSE /\ new.status = "encoding"
  OBVIOUS
<1> HIDE DEF new
<1>6. /\ cbs' \in Seq(CommandBuffer) /\ Len(cbs') = Len(cbs) + 1
      /\ DOMAIN cbs' = DOMAIN cbs \union {Len(cbs) + 1}
      /\ \A i \in DOMAIN cbs : cbs'[i] = cbs[i]
      /\ cbs'[Len(cbs) + 1] = new
  BY <1>2, <1>3, <1>4, SeqAppend
<1> QED BY <1>3, <1>4, <1>5, <1>6

\* The waits are encoded into the open command buffer.
LEMMA WaitEffect ==
    ASSUME TypeInv, SessionInv, WaitDependencies
    PROVE  /\ OnlyChanges(Current)
           /\ cbs'[Current].waits =
                {fences[f].updated : f \in
                   UNION {DependencyFences(session.kernel[i]) : i \in DOMAIN session.kernel}} \ {0}
           /\ cbs'[Current].tracked = cbs[Current].tracked
           /\ cbs'[Current].status = cbs[Current].status
<1> DEFINE fs == UNION {DependencyFences(session.kernel[i]) : i \in DOMAIN session.kernel}
           W == {fences[f].updated : f \in fs} \ {0}
           r == [cbs[Current] EXCEPT !.waits = W]
<1>1. /\ Current \in DOMAIN cbs /\ cbs[Current] \in CommandBuffer
      /\ session.kernel \in Seq(Field)
  BY CurrentInDomain DEF WaitDependencies, Idle
<1>2. fs \in SUBSET Fence
  BY <1>1, DependencyFencesType
<1>3. W \in SUBSET (1 .. MaxKernels)
  <2> HIDE DEF fs
  <2>1. ASSUME NEW f \in fs PROVE fences[f].updated \in 0 .. MaxKernels
    BY <1>2 DEF TypeInv, FenceState
  <2> QED BY <2>1, MpsKernelSyncConstants
<1>4. r \in CommandBuffer
  <2> HIDE DEF W
  <2> QED BY <1>1, <1>3 DEF CommandBuffer
<1>5. cbs' = [cbs EXCEPT ![Current] = r]
  BY DEF WaitDependencies
<1>6. /\ r.waits = W /\ r.queue = cbs[Current].queue /\ r.uses = cbs[Current].uses
      /\ r.tracked = cbs[Current].tracked /\ r.status = cbs[Current].status
  <2> HIDE DEF W
  <2> QED BY <1>1 DEF CommandBuffer
<1>7. /\ cbs' \in Seq(CommandBuffer) /\ Len(cbs') = Len(cbs) /\ DOMAIN cbs' = DOMAIN cbs
      /\ cbs'[Current] = r /\ \A i \in DOMAIN cbs : i # Current => cbs'[i] = cbs[i]
  <2> HIDE DEF r
  <2> QED BY <1>1, <1>4, <1>5, SeqReplace DEF TypeInv
<1>8. cbs'[Current].waits = W
  BY <1>6, <1>7, Zenon
<1> HIDE DEF r, W
<1> QED BY <1>6, <1>7, <1>8 DEF W, OnlyChanges

\* Changing one command buffer leaves the others.
LEMMA CbReplaced ==
    ASSUME TypeInv, NEW c \in DOMAIN cbs, NEW r \in CommandBuffer, cbs' = [cbs EXCEPT ![c] = r],
           r.queue = cbs[c].queue, r.uses = cbs[c].uses
    PROVE  OnlyChanges(c) /\ cbs'[c] = r
<1>1. cbs \in Seq(CommandBuffer)
  BY DEF TypeInv
<1>2. /\ cbs' \in Seq(CommandBuffer) /\ Len(cbs') = Len(cbs) /\ DOMAIN cbs' = DOMAIN cbs
      /\ cbs'[c] = r /\ \A i \in DOMAIN cbs : i # c => cbs'[i] = cbs[i]
  BY <1>1, SeqReplace
<1> QED BY <1>2 DEF OnlyChanges

\* The other steps set the status or the mark of one command buffer.
LEMMA StatusEffect ==
    ASSUME TypeInv, NEW c \in DOMAIN cbs, NEW st \in {"committed", "done"},
           cbs' = [cbs EXCEPT ![c].status = st]
    PROVE  /\ OnlyChanges(c) /\ cbs'[c].status = st
           /\ cbs'[c].tracked = cbs[c].tracked /\ cbs'[c].waits = cbs[c].waits
<1> DEFINE r == [cbs[c] EXCEPT !.status = st]
<1>1. cbs[c] \in CommandBuffer /\ cbs \in Seq(CommandBuffer)
  BY DEF TypeInv
<1>2. r \in CommandBuffer
  BY <1>1 DEF CommandBuffer
<1>3. /\ r.status = st /\ r.queue = cbs[c].queue /\ r.uses = cbs[c].uses
      /\ r.tracked = cbs[c].tracked /\ r.waits = cbs[c].waits
  BY <1>1 DEF CommandBuffer
<1>4. cbs' = [cbs EXCEPT ![c] = r]
  OBVIOUS
<1> HIDE DEF r
<1>5. OnlyChanges(c) /\ cbs'[c] = r
  BY <1>2, <1>3, <1>4, CbReplaced, Zenon
<1> QED BY <1>3, <1>5, Zenon

\* Marking a command buffer as tracked by the tokens.
LEMMA TrackedEffect ==
    ASSUME TypeInv, NEW c \in DOMAIN cbs, cbs' = [cbs EXCEPT ![c].tracked = TRUE]
    PROVE  /\ OnlyChanges(c) /\ cbs'[c].tracked
           /\ cbs'[c].status = cbs[c].status /\ cbs'[c].waits = cbs[c].waits
<1> DEFINE r == [cbs[c] EXCEPT !.tracked = TRUE]
<1>1. cbs[c] \in CommandBuffer /\ cbs \in Seq(CommandBuffer)
  BY DEF TypeInv
<1>2. r \in CommandBuffer
  BY <1>1 DEF CommandBuffer
<1>3. /\ r.status = cbs[c].status /\ r.queue = cbs[c].queue /\ r.uses = cbs[c].uses
      /\ r.tracked = TRUE /\ r.waits = cbs[c].waits
  BY <1>1 DEF CommandBuffer
<1>4. cbs' = [cbs EXCEPT ![c] = r]
  OBVIOUS
<1> HIDE DEF r
<1>5. OnlyChanges(c) /\ cbs'[c] = r
  BY <1>2, <1>3, <1>4, CbReplaced, Zenon
<1> QED BY <1>3, <1>5, Zenon

\* The update of the tokens marks the open command buffer as tracked.
LEMMA UpdateCbs ==
    ASSUME TypeInv, SessionInv, UpdateTokens
    PROVE  /\ OnlyChanges(Current) /\ cbs'[Current].tracked
           /\ cbs'[Current].status = cbs[Current].status
           /\ cbs'[Current].waits = cbs[Current].waits
<1>1. Current \in DOMAIN cbs
  BY CurrentInDomain DEF UpdateTokens, Idle
<1>2. cbs' = [cbs EXCEPT ![Current].tracked = TRUE]
  BY DEF UpdateTokens
<1> QED BY <1>1, <1>2, TrackedEffect

\* The end of a kernel function commits its command buffer.
LEMMA FinishEffect ==
    ASSUME TypeInv, SessionInv, Finish
    PROVE  /\ OnlyChanges(Current) /\ cbs'[Current].status = "committed"
           /\ cbs'[Current].tracked = cbs[Current].tracked
           /\ cbs'[Current].waits = cbs[Current].waits
<1>1. Current \in DOMAIN cbs
  BY CurrentInDomain DEF Finish, Idle
<1>2. cbs' = [cbs EXCEPT ![Current].status = "committed"]
  BY DEF Finish
<1> QED BY <1>1, <1>2, StatusEffect

\* The device runs a command buffer.
LEMMA GpuRunEffect ==
    ASSUME TypeInv, NEW c \in DOMAIN cbs, GpuRun(c)
    PROVE  /\ OnlyChanges(c) /\ cbs'[c].status = "done"
           /\ cbs'[c].tracked = cbs[c].tracked /\ cbs'[c].waits = cbs[c].waits
  BY StatusEffect DEF GpuRun

\* What any step may do to a command buffer.
LEMMA CbsStep ==
    ASSUME TypeInv, SessionInv, [Next]_vars
    PROVE  CbsEvolve
<1>1. CASE UNCHANGED cbs
  BY <1>1 DEF CbsEvolve, TypeInv, Done
<1>2. ASSUME NEW q \in Queue, NEW k \in Kernel, Begin(q, k) PROVE CbsEvolve
  BY <1>2, BeginEffect DEF CbsEvolve, Done
<1>3. ASSUME NEW c \in DOMAIN cbs, OnlyChanges(c), cbs[c].tracked => cbs'[c].tracked,
             Done(c) => Done(c)'
      PROVE  CbsEvolve
  <2>1. Len(cbs) <= MaxKernels
    BY DEF TypeInv
  <2> QED BY <1>3, <2>1 DEF CbsEvolve, Done, OnlyChanges
<1>4. CASE WaitDependencies
  BY <1>3, <1>4, WaitEffect, CurrentInDomain DEF Done, WaitDependencies, Idle
<1>5. CASE UpdateTokens
  BY <1>3, <1>5, UpdateCbs, CurrentInDomain DEF Done, UpdateTokens, Idle
<1>6. CASE Finish
  BY <1>3, <1>6, FinishEffect, CurrentInDomain DEF Done, Finish, Idle
<1>7. ASSUME NEW c \in DOMAIN cbs, GpuRun(c) PROVE CbsEvolve
  BY <1>3, <1>7, GpuRunEffect DEF Done
<1>8. CASE Next
  BY <1>1, <1>2, <1>4, <1>5, <1>6, <1>7, <1>8
     DEF Next, Build, Drop, CheckFenceToken, UpdateTokensThrows, ReleaseReady, WaitUntilReady,
         ClearRefused
<1> QED BY <1>1, <1>8 DEF vars

\* The uses of a command buffer never change.
LEMMA UsesKept ==
    ASSUME CbsEvolve, NEW i \in DOMAIN cbs
    PROVE  /\ \A s : ReadsFrom(i, s)' <=> ReadsFrom(i, s)
           /\ \A s : WritesTo(i, s)' <=> WritesTo(i, s)
           /\ \A b : Touches(i, b)' <=> Touches(i, b)
  BY DEF CbsEvolve, ReadsFrom, WritesTo, Touches

(***************************************************************************)
(* What the actions do to the fences.                                      *)
(***************************************************************************)

\* Fences keep their queue and their last update, and are unbound only when
\* that update has happened.
FencesSettle ==
    /\ fences' \in [Fence -> FenceState]
    /\ \A f \in Fence :
         /\ fences'[f].queue = fences[f].queue /\ fences'[f].updated = fences[f].updated
         /\ \/ fences'[f].cb = fences[f].cb
            \/ fences'[f].cb = 0 /\ Finished(fences[f].updated)

\* A step that leaves the fences alone settles none wrongly.
LEMMA UnchangedSettles ==
    ASSUME TypeInv, UNCHANGED fences
    PROVE  FencesSettle
  BY DEF TypeInv, FencesSettle

\* A fence is forgotten only once its command buffer is finished.
LEMMA ForgetSettles ==
    ASSUME TypeInv, NEW fs, \A f \in fs : Finished(fences[f].updated), fences' = Forget(fs)
    PROVE  /\ FencesSettle
           /\ \A f \in Fence : f \in fs => fences'[f].cb = 0
<1>1. ASSUME NEW f \in Fence PROVE fences[f] \in FenceState
  BY DEF TypeInv
<1>2. ASSUME NEW f \in Fence, f \in fs
      PROVE  /\ fences'[f] = [fences[f] EXCEPT !.cb = 0] /\ fences'[f] \in FenceState
             /\ fences'[f].cb = 0 /\ fences'[f].queue = fences[f].queue
             /\ fences'[f].updated = fences[f].updated
  BY <1>1, <1>2, MpsKernelSyncConstants DEF Forget, FenceState
<1>3. ASSUME NEW f \in Fence, f \notin fs
      PROVE  fences'[f] = fences[f] /\ fences'[f] \in FenceState
  BY <1>1, <1>3 DEF Forget
<1>4. fences' = [f \in Fence |-> fences'[f]]
  BY DEF Forget
<1>5. fences' \in [Fence -> FenceState]
  BY <1>2, <1>3, <1>4
<1> QED BY <1>2, <1>3, <1>5 DEF FencesSettle

\* A fence found ready was last updated by a command buffer that is done.
LEMMA ReadyIsFinished ==
    ASSUME NEW f, FenceBinding(f), IsReady(f)
    PROVE  Finished(fences[f].updated)
  BY DEF FenceBinding, IsReady, Finished

\* releaseReady: the last ready lease is followed, from the back, by leases of
\* the same queue that were updated no later.
LEMMA ReleasedAreFinished ==
    ASSUME TypeInv, QueueInOrder, FencesBound, RegistriesInOrder, NEW q \in Queue,
           ReadyEnd(registry[q]) # 0
    PROVE  /\ ReadyEnd(registry[q]) \in Active(registry[q])
           /\ \A x \in Active(registry[q]) : x <= ReadyEnd(registry[q]) =>
                /\ registry[q].leases[x] \in Fence
                /\ Finished(fences[registry[q].leases[x]].updated)
<1> DEFINE reg == registry[q]
           ready == {i \in Active(reg) : reg.leases[i] = None \/ IsReady(reg.leases[i])}
           end == ReadyEnd(reg)
<1>1. reg \in RegistryState /\ reg.leases \in Seq(Lease)
  BY DEF TypeInv, RegistryState
<1>2. ready # {} /\ end = Max(ready)
  BY DEF ReadyEnd
<1>3. ready \in SUBSET (0 .. Len(reg.leases)) /\ Len(reg.leases) \in Nat
  BY <1>1 DEF Active
<1>4. end \in ready
  <2> HIDE DEF ready, reg, end
  <2> QED BY <1>2, <1>3, MaxOfNats
<1>5. RegistryInOrder(q)
  BY DEF RegistriesInOrder
<1>6. ASSUME NEW x \in Active(reg)
      PROVE  /\ reg.leases[x] \in Fence /\ FenceBinding(reg.leases[x])
             /\ fences[reg.leases[x]].queue = q /\ fences[reg.leases[x]].updated \in DOMAIN cbs
             /\ cbs[fences[reg.leases[x]].updated].queue = q
  BY <1>5 DEF RegistryInOrder, FencesBound, FenceBinding
<1>7. end \in Active(reg)
  BY <1>4
<1>8. reg.leases[end] # None
  BY <1>6, <1>7, MpsKernelSyncConstants
<1>9. IsReady(reg.leases[end])
  BY <1>4, <1>8
<1>10. Done(fences[reg.leases[end]].updated)
  BY <1>6, <1>7, <1>9, ReadyIsFinished DEF TypeInv, Finished, Done
<1>11. ASSUME NEW x \in Active(reg), x <= end
       PROVE  Done(fences[reg.leases[x]].updated)
  <2>1. x < end \/ x = end
    BY <1>1, <1>7, <1>11 DEF Active
  <2>2. CASE x < end
    <3>1. fences[reg.leases[x]].updated <= fences[reg.leases[end]].updated
      BY <1>5, <1>7, <2>2 DEF RegistryInOrder
    <3> DEFINE i == fences[reg.leases[x]].updated
               j == fences[reg.leases[end]].updated
    <3>2. i \in DOMAIN cbs /\ j \in DOMAIN cbs /\ cbs[i].queue = cbs[j].queue /\ Done(j)
      BY <1>6, <1>7, <1>10
    <3>3. i <= j /\ i \in Nat /\ j \in Nat
      BY <3>1, <3>2 DEF TypeInv
    <3> HIDE DEF i, j
    <3>4. Done(i)
      BY <3>2, <3>3 DEF QueueInOrder
    <3> QED BY <3>4 DEF i
  <2> QED BY <1>10, <2>1, <2>2
<1> QED BY <1>6, <1>7, <1>11 DEF Finished, Done

\* releaseReady frees only fences whose update is done.
LEMMA ReleaseReadySettles ==
    ASSUME TypeInv, QueueInOrder, FencesBound, RegistriesInOrder, NEW q \in Queue, ReleaseReady(q)
    PROVE  /\ FencesSettle
           /\ \A x \in Active(registry[q]) : x <= ReadyEnd(registry[q]) =>
                fences'[registry[q].leases[x]].cb = 0
<1> DEFINE end == ReadyEnd(registry[q])
           through == {registry[q].leases[i] : i \in {j \in Active(registry[q]) : j <= end}}
<1>1. end # 0 /\ fences' = Forget(through \ {None})
  BY DEF ReleaseReady
<1>2. \A x \in Active(registry[q]) : x <= end =>
        registry[q].leases[x] \in Fence /\ Finished(fences[registry[q].leases[x]].updated)
  BY <1>1, ReleasedAreFinished
<1>3. \A f \in through : f \in Fence /\ f # None /\ Finished(fences[f].updated)
  BY <1>2, MpsKernelSyncConstants
<1>4. /\ FencesSettle
      /\ \A f \in Fence : f \in through \ {None} => fences'[f].cb = 0
  <2> HIDE DEF through
  <2> QED BY <1>1, <1>3, ForgetSettles
<1>5. \A x \in Active(registry[q]) : x <= end => registry[q].leases[x] \in through
  OBVIOUS
<1> HIDE DEF through
<1> QED BY <1>3, <1>4, <1>5

\* So does waitUntilReady ...
LEMMA WaitUntilReadySettles ==
    ASSUME TypeInv, FencesBound, RegistriesInOrder, NEW q \in Queue, WaitUntilReady(q)
    PROVE  /\ FencesSettle
           /\ \A x \in Active(registry[q]) : fences'[registry[q].leases[x]].cb = 0
<1>1. \A x \in Active(registry[q]) : registry[q].leases[x] \in Fence
  BY DEF RegistriesInOrder, RegistryInOrder
<1>2. \A x \in Active(registry[q]) : registry[q].leases[x] \in ActiveFences(q)
  BY <1>1, MpsKernelSyncConstants DEF ActiveFences
<1>3. \A f \in ActiveFences(q) : f \in Fence
  BY <1>1 DEF ActiveFences
<1>4. \A f \in ActiveFences(q) : Finished(fences[f].updated)
  BY <1>3, ReadyIsFinished DEF WaitUntilReady, FencesBound
<1>5. FencesSettle /\ \A f \in Fence : f \in ActiveFences(q) => fences'[f].cb = 0
  BY <1>4, ForgetSettles DEF WaitUntilReady
<1> QED BY <1>1, <1>2, <1>5

\* ... and a clear that is refused.
LEMMA ClearRefusedSettles ==
    ASSUME TypeInv, FencesBound, RegistriesInOrder, NEW q \in Queue, ClearRefused(q)
    PROVE  FencesSettle
<1> DEFINE reg == registry[q]
           busy == {i \in Active(reg) : reg.leases[i] # None /\ ~IsReady(reg.leases[i])}
           before == {reg.leases[i] : i \in {j \in Active(reg) : j < Min(busy)}} \ {None}
<1>1. busy # {} /\ fences' = Forget(before)
  BY DEF ClearRefused
<1>2. reg \in RegistryState /\ reg.leases \in Seq(Lease)
  BY DEF TypeInv, RegistryState
<1>3. busy \in SUBSET Nat
  BY <1>2 DEF Active
<1>4. Min(busy) \in busy /\ \A x \in busy : Min(busy) <= x
  <2> HIDE DEF busy
  <2> QED BY <1>1, <1>3, MinOfNats
<1>5. ASSUME NEW x \in Active(reg), x < Min(busy), reg.leases[x] # None
      PROVE  Finished(fences[reg.leases[x]].updated)
  <2>1. x \notin busy
    <3>1. x \in Nat /\ Min(busy) \in Nat
      BY <1>2, <1>3, <1>4 DEF Active
    <3> HIDE DEF busy
    <3> QED BY <1>4, <1>5, <3>1
  <2>2. IsReady(reg.leases[x])
    BY <1>5, <2>1
  <2>3. reg.leases[x] \in Fence
    BY DEF RegistriesInOrder, RegistryInOrder
  <2> QED BY <2>2, <2>3, ReadyIsFinished DEF FencesBound
<1>6. \A f \in before : Finished(fences[f].updated)
  BY <1>5
<1> HIDE DEF before
<1> QED BY <1>1, <1>6, ForgetSettles

\* isCompleted on a fence token releases ready leases only.
LEMMA CheckFenceTokenEffect ==
    ASSUME TypeInv, FencesBound, NEW s \in Storage, CheckFenceToken(s)
    PROVE  /\ FencesSettle
           /\ storages' \in [Storage -> Token]
           /\ \A r \in Storage : r # s => storages'[r] = storages[r]
           /\ storages'[s].state = storages[s].state /\ storages'[s].buffer = storages[s].buffer
           /\ \/ storages'[s].write = storages[s].write
              \/ storages[s].write = None \/ Finished(fences[storages[s].write].updated)
           /\ DOMAIN storages'[s].reads = DOMAIN storages[s].reads
           /\ \A x \in DOMAIN storages[s].reads :
                \/ storages'[s].reads[x] = storages[s].reads[x]
                \/ storages[s].reads[x] = None
                \/ Finished(fences[storages[s].reads[x]].updated)
<1> DEFINE t == storages[s]
           writeReady == t.write = None \/ IsReady(t.write)
           busy == {i \in DOMAIN t.reads : t.reads[i] # None /\ ~IsReady(t.reads[i])}
           upTo == IF ~writeReady THEN 0 ELSE IF busy = {} THEN Len(t.reads) ELSE Min(busy) - 1
           seen == {t.reads[i] : i \in 1 .. upTo} \union IF writeReady THEN {t.write} ELSE {}
           wr == IF writeReady THEN None ELSE t.write
           rd == [i \in DOMAIN t.reads |-> IF i <= upTo THEN None ELSE t.reads[i]]
<1>1. /\ fences' = Forget(seen \ {None})
      /\ storages' = [storages EXCEPT ![s] = [t EXCEPT !.write = wr, !.reads = rd]]
  BY DEF CheckFenceToken
<1>2. t \in Token /\ t.reads \in Seq(Lease) /\ t.write \in Lease /\ Len(t.reads) \in Nat
  BY DEF TypeInv, Token
<1>3. busy \in SUBSET Nat
  BY <1>2
<1>4. busy # {} => Min(busy) \in busy /\ \A x \in busy : Min(busy) <= x
  <2> HIDE DEF busy
  <2> QED BY <1>3, MinOfNats
<1>5. upTo \in 0 .. Len(t.reads)
  <2>1. busy # {} => Min(busy) \in 1 .. Len(t.reads)
    BY <1>2, <1>4
  <2> HIDE DEF busy, t
  <2> QED BY <1>2, <2>1
<1>6. ASSUME NEW x \in DOMAIN t.reads, x <= upTo, t.reads[x] # None
      PROVE  IsReady(t.reads[x])
  <2>1. x \in 1 .. Len(t.reads) /\ x \in Nat
    BY <1>2
  <2>2. x \notin busy
    <3>1. busy # {} => Min(busy) \in Nat
      BY <1>3, <1>4
    <3> HIDE DEF busy, t
    <3> QED BY <1>4, <1>6, <2>1, <3>1
  <2> QED BY <1>6, <2>2
<1>7. writeReady /\ t.write # None => IsReady(t.write)
  OBVIOUS
<1>8. \A f \in Fence : IsReady(f) => Finished(fences[f].updated)
  BY ReadyIsFinished DEF FencesBound
<1>9. \A x \in DOMAIN t.reads : (x <= upTo /\ t.reads[x] # None) =>
        Finished(fences[t.reads[x]].updated)
  BY <1>2, <1>6, <1>8 DEF Lease
<1>10. writeReady /\ t.write # None => Finished(fences[t.write].updated)
  BY <1>2, <1>7, <1>8 DEF Lease
<1>11. \A i \in 1 .. upTo : i \in DOMAIN t.reads /\ i <= upTo
  <2> HIDE DEF upTo, t
  <2> QED BY <1>2, <1>5
<1>12. \A f \in seen \ {None} : Finished(fences[f].updated)
  <2> HIDE DEF upTo, t, writeReady
  <2> QED BY <1>9, <1>10, <1>11
<1>13. FencesSettle
  <2> HIDE DEF seen
  <2> QED BY <1>1, <1>12, ForgetSettles
<1>14. rd \in Seq(Lease) /\ DOMAIN rd = DOMAIN t.reads
  <2> HIDE DEF upTo, t
  <2> QED BY <1>2 DEF Lease
<1>15. \A x \in DOMAIN t.reads : rd[x] = t.reads[x] \/ x <= upTo
  OBVIOUS
<1>16. wr \in Lease /\ (wr = t.write \/ writeReady)
  <2> HIDE DEF writeReady, t
  <2> QED BY <1>2 DEF Lease
<1> HIDE DEF rd, wr, upTo, writeReady, seen, busy
<1>17. LET n == [t EXCEPT !.write = wr, !.reads = rd]
       IN  /\ n \in Token /\ n.state = t.state /\ n.buffer = t.buffer
           /\ n.write = wr /\ n.reads = rd
  BY <1>2, <1>14, <1>16 DEF Token
<1>18. /\ storages' \in [Storage -> Token]
       /\ \A r \in Storage : r # s => storages'[r] = storages[r]
       /\ storages'[s] = [t EXCEPT !.write = wr, !.reads = rd]
  BY <1>1, <1>17 DEF TypeInv
<1>19. /\ storages'[s].state = t.state /\ storages'[s].buffer = t.buffer
       /\ storages'[s].write = wr /\ storages'[s].reads = rd
  BY <1>17, <1>18
<1>20. wr = t.write \/ t.write = None \/ Finished(fences[t.write].updated)
  BY <1>10, <1>16
<1>21. \A x \in DOMAIN t.reads :
         rd[x] = t.reads[x] \/ t.reads[x] = None \/ Finished(fences[t.reads[x]].updated)
  BY <1>9, <1>15
<1> QED BY <1>13, <1>14, <1>18, <1>19, <1>20, <1>21

\* Every step but updateTokens only settles fences.
LEMMA FencesStep ==
    ASSUME IInv, [Next]_vars
    PROVE  FencesSettle \/ UpdateTokens
<1> USE DEF IInv
<1>1. ASSUME NEW q \in Queue, ReleaseReady(q) PROVE FencesSettle
  BY <1>1, ReleaseReadySettles
<1>2. ASSUME NEW q \in Queue, WaitUntilReady(q) PROVE FencesSettle
  BY <1>2, WaitUntilReadySettles
<1>3. ASSUME NEW q \in Queue, ClearRefused(q) PROVE FencesSettle
  BY <1>3, ClearRefusedSettles
<1>4. ASSUME NEW s \in Storage, CheckFenceToken(s) PROVE FencesSettle
  BY <1>4, CheckFenceTokenEffect
<1>5. CASE UNCHANGED fences
  BY <1>5, UnchangedSettles
<1>6. CASE Next
  BY <1>1, <1>2, <1>3, <1>4, <1>5, <1>6
     DEF Next, Build, Drop, Begin, WaitDependencies, UpdateTokensThrows, Finish, GpuRun
<1> QED BY <1>5, <1>6 DEF vars

\* A free fence is in no registry and in no token.
LEMMA FreeIsNotLeased ==
    ASSUME TypeInv, NEW f \in FreeFence
    PROVE  /\ f \in Fence
           /\ \A q \in Queue : \A x \in DOMAIN registry[q].leases : registry[q].leases[x] # f
           /\ \A s \in Storage : /\ storages[s].write # f
                                 /\ \A x \in DOMAIN storages[s].reads : storages[s].reads[x] # f
<1>1. f \in Fence /\ f \notin LeasedByRegistry(registry) /\ f \notin LeasedByToken(storages)
  BY DEF FreeFence
<1>2. ASSUME NEW q \in Queue, NEW x \in DOMAIN registry[q].leases
      PROVE  registry[q].leases[x] # f
  BY <1>1 DEF LeasedByRegistry, ToSet
<1>3. ASSUME NEW s \in Storage
      PROVE  /\ storages[s].write # f
             /\ \A x \in DOMAIN storages[s].reads : storages[s].reads[x] # f
  <2>1. f \notin ToSet(storages[s].reads) \union {storages[s].write}
    BY <1>1 DEF LeasedByToken
  <2> QED BY <2>1 DEF ToSet
<1> QED BY <1>1, <1>2, <1>3

\* The accesses of the kernel in progress are those of its command buffer.
LEMMA SessionAccesses ==
    ASSUME TypeInv, SessionInv, ~Idle, NEW s
    PROVE  /\ (\E a \in AccessesTo(session.kernel, s) : Reads(a)) <=> ReadsFrom(Current, s)
           /\ (\E a \in AccessesTo(session.kernel, s) : Writes(a)) <=> WritesTo(Current, s)
<1> DEFINE k == session.kernel
<1>1. \A a : a \in AccessesTo(k, s) <=> \E x \in DOMAIN k : k[x].storage = s /\ k[x].access = a
  BY DEF AccessesTo
<1>2. \A a : a \in AccessesTo(k, s) <=> \E u \in cbs[Current].uses : u[1] = s /\ u[3] = a
  BY <1>1 DEF SessionInv
<1> QED BY <1>2 DEF ReadsFrom, WritesTo

\* updateTokens, for the fence it acquires.
UpdatesWith(f) ==
    /\ f \in FreeFence /\ CanBind(f)
    /\ fences' \in [Fence -> FenceState]
    /\ fences'[f].cb = Current /\ fences'[f].updated = Current
    /\ fences'[f].queue = cbs[Current].queue
    /\ \A g \in Fence : g # f => fences'[g] = fences[g]
    /\ registry' = [registry EXCEPT ![cbs[Current].queue] = Push(@, f)]
    /\ storages' \in [Storage -> Token]
    /\ \A s \in Storage :
         /\ storages'[s].state = storages[s].state /\ storages'[s].buffer = storages[s].buffer
         /\ storages'[s].write = IF WritesTo(Current, s) THEN f ELSE storages[s].write
         /\ ReadsFrom(Current, s) =>
              \E x \in DOMAIN storages'[s].reads : storages'[s].reads[x] = f
         /\ \A x \in DOMAIN storages[s].reads :
              /\ x \in DOMAIN storages'[s].reads
              /\ \/ storages'[s].reads[x] = storages[s].reads[x]
                 \/ /\ storages'[s].reads[x] = f /\ storages[s].reads[x] \in Fence
                    /\ fences[storages[s].reads[x]].queue = cbs[Current].queue

\* The update of the tokens uses one fence, which was free.
LEMMA UpdateEffect ==
    ASSUME TypeInv, SessionInv, UpdateTokens
    PROVE  \E f \in Fence : UpdatesWith(f)
<1> DEFINE f == CHOOSE free \in FreeFence : TRUE
           c == Current
           q == cbs[Current].queue
<1>1. f \in FreeFence
  BY DEF UpdateTokens
<1>2. /\ CanBind(f)
      /\ fences' = [fences EXCEPT ![f] = [cb |-> c, queue |-> q, updated |-> c]]
      /\ registry' = [registry EXCEPT ![q] = Push(@, f)]
      /\ storages' = [s \in Storage |->
           UpdatedToken(storages[s], AccessesTo(session.kernel, s), f, fences')]
  BY DEF UpdateTokens, AcquireFence
<1> HIDE DEF f
<1>3. /\ f \in Fence
      /\ \A s \in Storage : \A x \in DOMAIN storages[s].reads : storages[s].reads[x] # f
  BY <1>1, FreeIsNotLeased
<1>4. ~Idle
  BY DEF UpdateTokens, Idle
<1>5. c \in 0 .. MaxKernels /\ q \in Queue
  BY <1>4, CurrentInDomain DEF TypeInv, CommandBuffer, Current
<1>6. [cb |-> c, queue |-> q, updated |-> c] \in FenceState
  BY <1>5 DEF FenceState
<1>7. /\ fences' \in [Fence -> FenceState]
      /\ fences'[f] = [cb |-> c, queue |-> q, updated |-> c]
      /\ \A g \in Fence : g # f => fences'[g] = fences[g]
  BY <1>2, <1>3, <1>6 DEF TypeInv
<1>8. ASSUME NEW s \in Storage
      PROVE  /\ storages'[s] \in Token
             /\ storages'[s].state = storages[s].state /\ storages'[s].buffer = storages[s].buffer
             /\ storages'[s].write = IF WritesTo(Current, s) THEN f ELSE storages[s].write
             /\ ReadsFrom(Current, s) =>
                  \E x \in DOMAIN storages'[s].reads : storages'[s].reads[x] = f
             /\ \A x \in DOMAIN storages[s].reads :
                  /\ x \in DOMAIN storages'[s].reads
                  /\ \/ storages'[s].reads[x] = storages[s].reads[x]
                     \/ /\ storages'[s].reads[x] = f /\ storages[s].reads[x] \in Fence
                        /\ fences[storages[s].reads[x]].queue = cbs[Current].queue
  <2> DEFINE A == AccessesTo(session.kernel, s)
  <2>1. storages[s] \in Token
    BY DEF TypeInv
  <2>2. storages'[s] = UpdatedToken(storages[s], A, f, fences')
    BY <1>2
  <2>3. /\ (\E a \in A : Reads(a)) <=> ReadsFrom(Current, s)
        /\ (\E a \in A : Writes(a)) <=> WritesTo(Current, s)
    BY <1>4, SessionAccesses
  <2> HIDE DEF A
  <2>4. /\ storages'[s] \in Token
        /\ storages'[s].state = storages[s].state /\ storages'[s].buffer = storages[s].buffer
        /\ storages'[s].write = IF \E a \in A : Writes(a) THEN f ELSE storages[s].write
        /\ (\E a \in A : Reads(a)) =>
             \E x \in DOMAIN storages'[s].reads : storages'[s].reads[x] = f
        /\ \A x \in DOMAIN storages[s].reads :
             /\ x \in DOMAIN storages'[s].reads
             /\ \/ storages'[s].reads[x] = storages[s].reads[x]
                \/ /\ storages'[s].reads[x] = f /\ storages[s].reads[x] \in Fence
                   /\ fences'[storages[s].reads[x]].queue = fences'[f].queue
    <3>1. f \in Fence /\ fences' \in [Fence -> FenceState]
      BY <1>3, <1>7
    <3>2. TokenUpdated(storages'[s], storages[s], A, f, fences')
      BY <2>1, <2>2, <3>1, UpdatedTokenEffect
    <3> QED BY <3>2 DEF TokenUpdated
  <2>5. ASSUME NEW x \in DOMAIN storages[s].reads, storages[s].reads[x] \in Fence
        PROVE  fences'[storages[s].reads[x]] = fences[storages[s].reads[x]]
    BY <1>3, <1>7, <2>5
  <2>6. fences'[f].queue = cbs[Current].queue
    BY <1>7
  <2> QED BY <2>3, <2>4, <2>5, <2>6
<1>9. storages' \in [Storage -> Token]
  <2>1. storages' = [s \in Storage |-> storages'[s]]
    BY <1>2
  <2> QED BY <1>8, <2>1
<1>10. fences'[f].cb = Current /\ fences'[f].updated = Current /\ fences'[f].queue = q
  BY <1>7
<1>11. UpdatesWith(f)
  BY <1>1, <1>2, <1>7, <1>8, <1>9, <1>10 DEF UpdatesWith
<1> QED BY <1>3, <1>11

(***************************************************************************)
(* The types.                                                              *)
(***************************************************************************)

LEMMA TypeInvInit ==
    ASSUME Init
    PROVE  TypeInv
<1>1. [cb |-> 0, queue |-> None, updated |-> 0] \in FenceState
  BY MpsKernelSyncConstants DEF FenceState
<1>2. EmptyRegistry \in RegistryState
  BY DEF EmptyRegistry, RegistryState
<1>3. [EmptyToken EXCEPT !.state = "unbuilt"] =
        [state |-> "unbuilt", buffer |-> None, write |-> None, reads |-> <<>>]
  BY DEF EmptyToken
<1>4. [state |-> "unbuilt", buffer |-> None, write |-> None, reads |-> <<>>] \in Token
  BY DEF Token, Lease
<1>5. storages \in [Storage -> Token] /\ \A s \in Storage : storages[s].state = "unbuilt"
  BY <1>3, <1>4 DEF Init
<1>6. cbs \in Seq(CommandBuffer) /\ Len(cbs) <= MaxKernels
  BY MpsKernelSyncConstants DEF Init
<1>7. fences \in [Fence -> FenceState] /\ registry \in [Queue -> RegistryState]
  BY <1>1, <1>2 DEF Init
<1>8. buffers \in [Buffer -> Seq(Hazard)]
  BY DEF Init
<1>9. session \in [step : {"idle", "wait", "update", "finish"}, kernel : Kernel \union {<<>>}]
  BY DEF Init
<1> QED BY <1>5, <1>6, <1>7, <1>8, <1>9 DEF TypeInv

\* A hazard of a buffer is the new one, or one it had.
LEMMA HazardsType ==
    ASSUME TypeInv, SessionInv, UpdateTokens
    PROVE  /\ buffers' \in [Buffer -> Seq(Hazard)]
           /\ \A b \in Buffer :
                LET h == [queue |-> cbs[Current].queue, cb |-> Current]
                IN  /\ \A x \in DOMAIN buffers'[b] :
                         buffers'[b][x] = h \/ (x \in DOMAIN buffers[b] /\ buffers'[b][x] = buffers[b][x])
                    /\ \A x \in DOMAIN buffers[b] :
                         /\ x \in DOMAIN buffers'[b]
                         /\ \/ buffers'[b][x] = buffers[b][x]
                            \/ buffers'[b][x] = h /\ buffers[b][x].queue = h.queue
                    /\ Touches(Current, b) => \E x \in DOMAIN buffers'[b] : buffers'[b][x] = h
<1> DEFINE h == [queue |-> cbs[Current].queue, cb |-> Current]
<1>1. h \in Hazard
  <2>1. cbs[Current] \in CommandBuffer /\ Current \in 0 .. MaxKernels
    BY CurrentInDomain DEF UpdateTokens, Idle, TypeInv, Current
  <2> QED BY <2>1 DEF CommandBuffer, Hazard
<1>2. buffers' = [b \in Buffer |-> IF Touches(Current, b)
                                   THEN AddOrReplaceHazard(buffers[b], h) ELSE buffers[b]]
  BY DEF UpdateTokens, Touches
<1> HIDE DEF h
<1>3. ASSUME NEW b \in Buffer
      PROVE  /\ buffers'[b] \in Seq(Hazard)
             /\ \A x \in DOMAIN buffers'[b] :
                  buffers'[b][x] = h \/ (x \in DOMAIN buffers[b] /\ buffers'[b][x] = buffers[b][x])
             /\ \A x \in DOMAIN buffers[b] :
                  /\ x \in DOMAIN buffers'[b]
                  /\ \/ buffers'[b][x] = buffers[b][x]
                     \/ buffers'[b][x] = h /\ buffers[b][x].queue = h.queue
             /\ Touches(Current, b) => \E x \in DOMAIN buffers'[b] : buffers'[b][x] = h
  <2>1. buffers[b] \in Seq(Hazard)
    BY DEF TypeInv
  <2>2. CASE Touches(Current, b)
    <3>1. buffers'[b] = AddOrReplaceHazard(buffers[b], h)
      BY <1>2, <2>2
    <3>2. HazardAdded(buffers'[b], buffers[b], h)
      BY <1>1, <2>1, <3>1, AddOrReplaceHazardEffect
    <3> QED BY <3>2 DEF HazardAdded
  <2>3. CASE ~Touches(Current, b)
    <3>1. buffers'[b] = buffers[b]
      BY <1>2, <2>3
    <3> QED BY <2>1, <2>3, <3>1
  <2> QED BY <2>2, <2>3
<1>4. buffers' \in [Buffer -> Seq(Hazard)]
  <2>1. buffers' = [b \in Buffer |-> buffers'[b]]
    BY <1>2
  <2> QED BY <1>3, <2>1
<1> QED BY <1>3, <1>4 DEF h

\* Of a registry, releaseReady releases the entries up to the last ready one.
LEMMA ReleaseReadyEffect ==
    ASSUME TypeInv, QueueInOrder, FencesBound, RegistriesInOrder, NEW q \in Queue, ReleaseReady(q)
    PROVE  /\ ReadyEnd(registry[q]) \in Active(registry[q])
           /\ ReleasedThrough(registry'[q], registry[q], ReadyEnd(registry[q]))
           /\ registry' = [registry EXCEPT ![q] = registry'[q]]
<1> DEFINE end == ReadyEnd(registry[q])
<1>1. end # 0 /\ registry' = [registry EXCEPT ![q] = ReleaseThrough(registry[q], end)]
  BY DEF ReleaseReady
<1>2. end \in Active(registry[q])
  BY <1>1, ReleasedAreFinished
<1>3. registry[q] \in RegistryState
  BY DEF TypeInv
<1>4. end \in 0 .. Len(registry[q].leases)
  BY <1>2, <1>3 DEF Active, RegistryState
<1>5. registry'[q] = ReleaseThrough(registry[q], end)
  BY <1>1 DEF TypeInv
<1>6. ReleasedThrough(registry'[q], registry[q], end)
  BY <1>3, <1>4, <1>5, ReleaseThroughEffect
<1> QED BY <1>1, <1>2, <1>5, <1>6

\* A lease pushed on a registry keeps it well formed.
LEMMA PushType ==
    ASSUME NEW reg \in RegistryState, NEW f \in Fence
    PROVE  /\ Push(reg, f) \in RegistryState
           /\ Push(reg, f).head = reg.head
           /\ Push(reg, f).leases = Append(reg.leases, f)
  BY DEF Push, RegistryState, Lease

\* Every step keeps the types.
LEMMA TypeInvStep ==
    ASSUME IInv, [Next]_vars
    PROVE  TypeInv'
<1> USE DEF IInv
<1>1. cbs' \in Seq(CommandBuffer) /\ Len(cbs') <= MaxKernels
  BY CbsStep DEF CbsEvolve
<1>2. CASE UpdateTokens
  <2>1. PICK f \in Fence : UpdatesWith(f)
    BY <1>2, UpdateEffect
  <2>2. cbs[Current].queue \in Queue
    BY <1>2, CurrentInDomain DEF UpdateTokens, Idle, CommandBuffer
  <2>3. registry' \in [Queue -> RegistryState]
    <3>1. Push(registry[cbs[Current].queue], f) \in RegistryState
      BY <2>2, PushType DEF TypeInv
    <3> QED BY <2>1, <2>2, <3>1 DEF UpdatesWith, TypeInv
  <2>4. /\ fences' \in [Fence -> FenceState] /\ storages' \in [Storage -> Token]
        /\ \A s \in Storage : /\ storages'[s].state = storages[s].state
                              /\ storages'[s].buffer = storages[s].buffer
    BY <2>1 DEF UpdatesWith
  <2>5. buffers' \in [Buffer -> Seq(Hazard)]
    BY <1>2, HazardsType
  <2>6. session' \in [step : {"idle", "wait", "update", "finish"}, kernel : Kernel \union {<<>>}]
    BY <1>2 DEF UpdateTokens, TypeInv
  <2>7. \A s \in Storage : storages'[s].state = "live" => storages'[s].buffer \in Buffer
    BY <2>4 DEF TypeInv
  <2> QED BY <1>1, <2>3, <2>4, <2>5, <2>6, <2>7 DEF TypeInv
<1>3. CASE FencesSettle
  <2>1. fences' \in [Fence -> FenceState]
    BY <1>3 DEF FencesSettle
  <2>2. ASSUME registry' \in [Queue -> RegistryState], storages' \in [Storage -> Token],
               buffers' = buffers,
               session' \in [step : {"idle", "wait", "update", "finish"},
                             kernel : Kernel \union {<<>>}],
               \A s \in Storage : storages'[s].state = "live" => storages'[s].buffer \in Buffer
        PROVE  TypeInv'
    BY <1>1, <2>1, <2>2 DEF TypeInv
  <2>3. ASSUME NEW s \in Storage, Build(s) PROVE TypeInv'
    <3>1. PICK b \in Buffer :
            storages' = [storages EXCEPT ![s] = [EmptyToken EXCEPT !.state = "live", !.buffer = b]]
      BY <2>3 DEF Build
    <3>2. [EmptyToken EXCEPT !.state = "live", !.buffer = b] =
            [state |-> "live", buffer |-> b, write |-> None, reads |-> <<>>]
      BY BuiltToken
    <3>3. [state |-> "live", buffer |-> b, write |-> None, reads |-> <<>>] \in Token
      BY DEF Token, Lease
    <3>4. storages' \in [Storage -> Token]
      BY <3>1, <3>2, <3>3 DEF TypeInv
    <3>5. ASSUME NEW r \in Storage, storages'[r].state = "live" PROVE storages'[r].buffer \in Buffer
      BY <3>1, <3>2, <3>5 DEF TypeInv
    <3>6. UNCHANGED <<registry, buffers, session>>
      BY <2>3 DEF Build
    <3> QED BY <2>2, <3>4, <3>5, <3>6 DEF TypeInv
  <2>4. ASSUME NEW s \in Storage, Drop(s) PROVE TypeInv'
    <3>1. storages' = [storages EXCEPT ![s] = EmptyToken] /\ UNCHANGED <<registry, buffers, session>>
      BY <2>4 DEF Drop
    <3>2. EmptyToken \in Token /\ EmptyToken.state = "dropped"
      BY DEF EmptyToken, Token, Lease
    <3>3. storages' \in [Storage -> Token]
      BY <3>1, <3>2 DEF TypeInv
    <3>4. ASSUME NEW r \in Storage, storages'[r].state = "live" PROVE storages'[r].buffer \in Buffer
      BY <3>1, <3>2, <3>4 DEF TypeInv
    <3> QED BY <2>2, <3>1, <3>3, <3>4 DEF TypeInv
  <2>5. ASSUME NEW s \in Storage, CheckFenceToken(s) PROVE TypeInv'
    <3>1. /\ storages' \in [Storage -> Token]
          /\ \A r \in Storage : r # s => storages'[r] = storages[r]
          /\ storages'[s].state = storages[s].state /\ storages'[s].buffer = storages[s].buffer
      BY <2>5, CheckFenceTokenEffect
    <3>2. \A r \in Storage : storages'[r].state = "live" => storages'[r].buffer \in Buffer
      BY <3>1 DEF TypeInv
    <3>3. UNCHANGED <<registry, buffers, session>>
      BY <2>5 DEF CheckFenceToken
    <3> QED BY <2>2, <3>1, <3>2, <3>3 DEF TypeInv
  <2>6. ASSUME NEW q \in Queue, ReleaseReady(q) PROVE TypeInv'
    <3>1. registry' = [registry EXCEPT ![q] = registry'[q]] /\ registry'[q] \in RegistryState
      BY <2>6, ReleaseReadyEffect DEF ReleasedThrough
    <3>2. registry' \in [Queue -> RegistryState]
      BY <3>1 DEF TypeInv
    <3>3. UNCHANGED <<storages, buffers, session>>
      BY <2>6 DEF ReleaseReady
    <3> QED BY <2>2, <3>2, <3>3 DEF TypeInv
  <2>7. ASSUME NEW q \in Queue, WaitUntilReady(q) PROVE TypeInv'
    <3>1. EmptyRegistry \in RegistryState
      BY DEF EmptyRegistry, RegistryState
    <3>2. registry' \in [Queue -> RegistryState]
      BY <2>7, <3>1 DEF WaitUntilReady, TypeInv
    <3>3. UNCHANGED <<storages, buffers, session>>
      BY <2>7 DEF WaitUntilReady
    <3> QED BY <2>2, <3>2, <3>3 DEF TypeInv
  <2>8. ASSUME NEW q \in Queue, NEW k \in Kernel, Begin(q, k) PROVE TypeInv'
    <3>1. session' = [step |-> "wait", kernel |-> k] /\ UNCHANGED <<registry, storages, buffers>>
      BY <2>8 DEF Begin
    <3> QED BY <2>2, <3>1 DEF TypeInv
  <2>9. CASE WaitDependencies
    <3>1. /\ session' = [session EXCEPT !.step = "update"]
          /\ UNCHANGED <<registry, storages, buffers>>
      BY <2>9 DEF WaitDependencies
    <3> QED BY <2>2, <3>1 DEF TypeInv
  <2>10. CASE UpdateTokensThrows
    <3>1. /\ session' = [session EXCEPT !.step = "finish"]
          /\ UNCHANGED <<registry, storages, buffers>>
      BY <2>10 DEF UpdateTokensThrows
    <3> QED BY <2>2, <3>1 DEF TypeInv
  <2>11. CASE Finish
    <3>1. session' = [step |-> "idle", kernel |-> <<>>] /\ UNCHANGED <<registry, storages, buffers>>
      BY <2>11 DEF Finish
    <3> QED BY <2>2, <3>1 DEF TypeInv
  <2>12. CASE UNCHANGED <<registry, storages, buffers, session>>
    BY <2>2, <2>12 DEF TypeInv
  <2>13. ASSUME NEW i \in DOMAIN cbs, GpuRun(i) PROVE TypeInv'
    BY <2>12, <2>13 DEF GpuRun
  <2>14. ASSUME NEW q \in Queue, ClearRefused(q) PROVE TypeInv'
    BY <2>12, <2>14 DEF ClearRefused
  <2> QED BY <1>2, <2>3, <2>4, <2>5, <2>6, <2>7, <2>8, <2>9, <2>10, <2>11, <2>12, <2>13, <2>14
          DEF Next, vars
<1> QED BY <1>2, <1>3, FencesStep

(***************************************************************************)
(* The session and the order of completion.                                *)
(***************************************************************************)

\* What a step may add to a command buffer, and which step adds it.
LEMMA CbsBack ==
    ASSUME TypeInv, SessionInv, [Next]_vars, NEW i \in DOMAIN cbs'
    PROVE  /\ Done(i)' => i \in DOMAIN cbs /\ (Done(i) \/ GpuRun(i))
           /\ cbs'[i].tracked =>
                i \in DOMAIN cbs /\ (cbs[i].tracked \/ (UpdateTokens /\ i = Current))
           /\ \/ i \in DOMAIN cbs /\ cbs'[i].waits = cbs[i].waits
              \/ WaitDependencies /\ i = Current
              \/ i \notin DOMAIN cbs /\ cbs'[i].waits = {} /\ Waiting(i)'
<1> DEFINE Concl == /\ Done(i)' => i \in DOMAIN cbs /\ (Done(i) \/ GpuRun(i))
                    /\ cbs'[i].tracked =>
                         i \in DOMAIN cbs /\ (cbs[i].tracked \/ (UpdateTokens /\ i = Current))
                    /\ \/ i \in DOMAIN cbs /\ cbs'[i].waits = cbs[i].waits
                       \/ WaitDependencies /\ i = Current
                       \/ i \notin DOMAIN cbs /\ cbs'[i].waits = {} /\ Waiting(i)'
<1>1. CASE UNCHANGED cbs
  BY <1>1 DEF Done
<1>2. ASSUME NEW q \in Queue, NEW k \in Kernel, Begin(q, k) PROVE Concl
  <2>1. CASE i \in DOMAIN cbs
    BY <1>2, <2>1, BeginEffect DEF Done
  <2>2. CASE i \notin DOMAIN cbs
    <3>1. i = Len(cbs) + 1 /\ i = Len(cbs')
      BY <1>2, <2>2, BeginEffect
    <3>2. cbs'[i].waits = {} /\ cbs'[i].tracked = FALSE /\ cbs'[i].status = "encoding"
      BY <1>2, <3>1, BeginEffect
    <3>3. session'.step = "wait"
      BY <1>2 DEF Begin
    <3> QED BY <2>2, <3>1, <3>2, <3>3 DEF Done, Waiting, Current
  <2> QED BY <2>1, <2>2
<1>3. CASE WaitDependencies
  <2>1. i \in DOMAIN cbs
    BY <1>3, WaitEffect DEF OnlyChanges
  <2>2. CASE i = Current
    BY <1>3, <2>1, <2>2, WaitEffect DEF Done
  <2>3. CASE i # Current
    BY <1>3, <2>1, <2>3, WaitEffect DEF Done, OnlyChanges
  <2> QED BY <2>2, <2>3
<1>4. CASE UpdateTokens
  <2>1. i \in DOMAIN cbs
    BY <1>4, UpdateCbs DEF OnlyChanges
  <2>2. CASE i = Current
    BY <1>4, <2>1, <2>2, UpdateCbs DEF Done
  <2>3. CASE i # Current
    BY <1>4, <2>1, <2>3, UpdateCbs DEF Done, OnlyChanges
  <2> QED BY <2>2, <2>3
<1>5. CASE Finish
  <2>1. i \in DOMAIN cbs
    BY <1>5, FinishEffect DEF OnlyChanges
  <2>2. CASE i = Current
    BY <1>5, <2>1, <2>2, FinishEffect DEF Done
  <2>3. CASE i # Current
    BY <1>5, <2>1, <2>3, FinishEffect DEF Done, OnlyChanges
  <2> QED BY <2>2, <2>3
<1>6. ASSUME NEW c \in DOMAIN cbs, GpuRun(c) PROVE Concl
  <2>1. i \in DOMAIN cbs
    BY <1>6, GpuRunEffect DEF OnlyChanges
  <2>2. CASE i = c
    BY <1>6, <2>1, <2>2, GpuRunEffect DEF Done
  <2>3. CASE i # c
    BY <1>6, <2>1, <2>3, GpuRunEffect DEF Done, OnlyChanges
  <2> QED BY <2>2, <2>3
<1>7. CASE Next
  BY <1>1, <1>2, <1>3, <1>4, <1>5, <1>6, <1>7
     DEF Next, Build, Drop, CheckFenceToken, UpdateTokensThrows, ReleaseReady, WaitUntilReady,
         ClearRefused
<1> QED BY <1>1, <1>7 DEF vars

\* Only Build and Drop change the state of a storage, between sessions.
LEMMA StatesKept ==
    ASSUME IInv, [Next]_vars
    PROVE  \/ \A s \in Storage : storages'[s].state = storages[s].state
           \/ \E s \in Storage : Build(s) \/ Drop(s)
<1> USE DEF IInv
<1>1. CASE UpdateTokens
  BY <1>1, UpdateEffect DEF UpdatesWith
<1>2. ASSUME NEW s \in Storage, CheckFenceToken(s)
      PROVE  \A r \in Storage : storages'[r].state = storages[r].state
  BY <1>2, CheckFenceTokenEffect
<1>3. CASE UNCHANGED storages
  BY <1>3
<1>4. CASE Next
  BY <1>1, <1>2, <1>3, <1>4
     DEF Next, Begin, WaitDependencies, UpdateTokensThrows, Finish, GpuRun, ReleaseReady,
         WaitUntilReady, ClearRefused
<1> QED BY <1>3, <1>4 DEF vars

\* A step of the kernel function keeps its command buffer and its storages.
LEMMA SessionKept ==
    ASSUME TypeInv, SessionInv, ~Idle, session'.kernel = session.kernel, Len(cbs') = Len(cbs),
           cbs'[Current].status = cbs[Current].status, cbs'[Current].uses = cbs[Current].uses,
           \A s \in Storage : storages'[s].state = storages[s].state, cbs' # <<>>
    PROVE  SessionInv'
<1>1. session.kernel \in Seq(Field)
  BY CurrentInDomain
<1>2. \A x \in DOMAIN session.kernel : session.kernel[x].storage \in Storage
  <2>1. \A x \in DOMAIN session.kernel : session.kernel[x] \in Field
    BY <1>1
  <2> QED BY <2>1 DEF Field
<1>3. Current' = Current
  BY DEF Current
<1> QED BY <1>2, <1>3 DEF SessionInv, Idle

\* Every step keeps the stages of the session in order.
LEMMA SessionInvStep ==
    ASSUME IInv, [Next]_vars
    PROVE  SessionInv'
<1> USE DEF IInv
<1>1. ASSUME NEW q \in Queue, NEW k \in Kernel, Begin(q, k) PROVE SessionInv'
  <2> DEFINE n == Len(cbs) + 1
  <2>1. /\ cbs' # <<>> /\ Current' = n
        /\ cbs'[n].status = "encoding" /\ cbs'[n].uses = Uses(k)
    <3>1. cbs' \in Seq(CommandBuffer) /\ Len(cbs') = n
      BY <1>1, BeginEffect
    <3>2. Len(cbs) \in Nat
      BY DEF TypeInv
    <3>3. cbs' # <<>>
      BY <3>1, <3>2
    <3> QED BY <1>1, <3>1, <3>3, BeginEffect DEF Current
  <2>2. session'.kernel = k /\ storages' = storages
    BY <1>1 DEF Begin
  <2>3. \A x \in DOMAIN k : storages[k[x].storage].state = "live"
    BY <1>1 DEF Begin
  <2>4. ASSUME NEW x \in DOMAIN k
        PROVE  \E u \in Uses(k) : u[1] = k[x].storage /\ u[3] = k[x].access
    <3>1. <<k[x].storage, storages[k[x].storage].buffer, k[x].access>> \in Uses(k)
      BY DEF Uses
    <3> QED BY <3>1
  <2>5. \A u \in Uses(k) : \E x \in DOMAIN k : u[1] = k[x].storage /\ u[3] = k[x].access
    BY DEF Uses
  <2> QED BY <2>1, <2>2, <2>3, <2>4, <2>5 DEF SessionInv
<1>2. CASE Idle /\ UNCHANGED session
  BY <1>2 DEF SessionInv, Idle
<1>3. ASSUME ~Idle, Len(cbs') = Len(cbs), cbs'[Current].status = cbs[Current].status,
             session'.kernel = session.kernel
      PROVE  SessionInv'
  <2>1. Current \in DOMAIN cbs /\ Current \in Nat \ {0}
    BY <1>3, CurrentInDomain
  <2>2. cbs'[Current].uses = cbs[Current].uses
    BY <2>1, CbsStep DEF CbsEvolve
  <2>3. \A s \in Storage : storages'[s].state = storages[s].state
    BY <1>3, StatesKept DEF Build, Drop
  <2>4. cbs' # <<>>
    BY <1>3, <2>1 DEF Current
  <2> QED BY <1>3, <2>2, <2>3, <2>4, SessionKept
<1>4. CASE ~Idle /\ UNCHANGED <<cbs, session>>
  BY <1>3, <1>4
<1>5. CASE WaitDependencies
  BY <1>3, <1>5, WaitEffect DEF WaitDependencies, Idle, OnlyChanges, TypeInv
<1>6. CASE UpdateTokens
  BY <1>3, <1>6, UpdateCbs DEF UpdateTokens, Idle, OnlyChanges, TypeInv
<1>7. CASE UpdateTokensThrows
  BY <1>3, <1>7 DEF UpdateTokensThrows, Idle, TypeInv
<1>8. CASE Finish
  BY <1>8 DEF Finish, SessionInv, Idle
<1>9. ASSUME NEW c \in DOMAIN cbs, GpuRun(c) PROVE SessionInv'
  <2>1. CASE Idle
    BY <1>2, <1>9, <2>1 DEF GpuRun
  <2>2. CASE ~Idle
    <3>1. Current \in DOMAIN cbs /\ Current # c
      BY <1>9, <2>2, CurrentInDomain DEF GpuRun
    <3> QED BY <1>3, <1>9, <2>2, <3>1, GpuRunEffect DEF GpuRun, OnlyChanges
  <2> QED BY <2>1, <2>2
<1>10. CASE UNCHANGED <<cbs, session>>
  BY <1>2, <1>4, <1>10
<1>11. CASE Next
  BY <1>1, <1>5, <1>6, <1>7, <1>8, <1>9, <1>10, <1>11
     DEF Next, Build, Drop, CheckFenceToken, ReleaseReady, WaitUntilReady, ClearRefused
<1> QED BY <1>10, <1>11 DEF vars

\* Every step keeps: only storages that were built have been used.
LEMMA UsedBuiltStep ==
    ASSUME IInv, [Next]_vars
    PROVE  UsedBuilt'
<1> USE DEF IInv
<1>1. \A s \in Storage : storages[s].state # "unbuilt" => storages'[s].state # "unbuilt"
  <2>1. ASSUME NEW r \in Storage, Build(r) \/ Drop(r)
        PROVE  \A s \in Storage : storages[s].state # "unbuilt" => storages'[s].state # "unbuilt"
    <3>1. CASE Drop(r)
      BY <3>1 DEF Drop, EmptyToken, TypeInv
    <3>2. CASE Build(r)
      BY <3>2 DEF Build, TypeInv
    <3> QED BY <2>1, <3>1, <3>2
  <2> QED BY <2>1, StatesKept
<1>2. ASSUME NEW i \in DOMAIN cbs' PROVE \A u \in cbs'[i].uses : storages'[u[1]].state # "unbuilt"
  <2>1. CASE i \in DOMAIN cbs
    <3>1. cbs'[i].uses = cbs[i].uses /\ cbs[i].uses \in SUBSET (Storage \X Buffer \X Access)
      <4>1. cbs[i] \in CommandBuffer
        BY <2>1 DEF TypeInv
      <4> QED BY <2>1, <4>1, CbsStep DEF CbsEvolve, CommandBuffer
    <3>2. \A u \in cbs[i].uses : u[1] \in Storage /\ storages[u[1]].state # "unbuilt"
      BY <2>1, <3>1 DEF UsedBuilt
    <3> QED BY <1>1, <3>1, <3>2
  <2>2. ASSUME i \notin DOMAIN cbs, NEW q \in Queue, NEW k \in Kernel, Begin(q, k)
        PROVE  \A u \in cbs'[i].uses : storages'[u[1]].state # "unbuilt"
    <3>1. cbs'[i].uses = Uses(k)
      BY <2>2, BeginEffect
    <3>2. \A u \in Uses(k) : storages[u[1]].state = "live"
      BY <2>2 DEF Begin, Uses
    <3> QED BY <2>2, <3>1, <3>2 DEF Begin
  <2>3. CASE DOMAIN cbs' = DOMAIN cbs
    BY <2>1, <2>3
  <2>4. CASE WaitDependencies \/ UpdateTokens \/ Finish \/ \E c \in DOMAIN cbs : GpuRun(c)
    BY <2>3, <2>4, WaitEffect, UpdateCbs, FinishEffect, GpuRunEffect DEF OnlyChanges
  <2>5. CASE Next
    BY <2>1, <2>2, <2>3, <2>4, <2>5
       DEF Next, Build, Drop, CheckFenceToken, UpdateTokensThrows, ReleaseReady, WaitUntilReady,
           ClearRefused
  <2> QED BY <2>3, <2>5 DEF vars
<1> QED BY <1>2 DEF UsedBuilt

\* Every step keeps the order of each queue.
LEMMA QueueInOrderStep ==
    ASSUME IInv, [Next]_vars
    PROVE  QueueInOrder'
<1> USE DEF IInv
<1>1. SUFFICES ASSUME NEW i \in DOMAIN cbs', NEW j \in DOMAIN cbs',
                      i < j, cbs'[i].queue = cbs'[j].queue, Done(j)'
               PROVE  Done(i)'
  BY DEF QueueInOrder
<1>2. j \in DOMAIN cbs /\ (Done(j) \/ GpuRun(j))
  BY <1>1, CbsBack
<1>3. CbsEvolve
  BY CbsStep
<1>4. i \in DOMAIN cbs
  <2>1. cbs \in Seq(CommandBuffer) /\ cbs' \in Seq(CommandBuffer)
    BY <1>3 DEF CbsEvolve, TypeInv
  <2> QED BY <1>1, <1>2, <2>1
<1>5. cbs[i].queue = cbs[j].queue
  BY <1>1, <1>2, <1>3, <1>4 DEF CbsEvolve
<1>6. CASE Done(j)
  <2>1. Done(i)
    BY <1>1, <1>2, <1>4, <1>5, <1>6 DEF QueueInOrder
  <2> QED BY <1>3, <1>4, <2>1 DEF CbsEvolve
<1>7. CASE GpuRun(j)
  <2>1. i \in 1 .. j - 1
    BY <1>1, <1>2, <1>4 DEF TypeInv
  <2>2. Done(i)
    BY <1>5, <1>7, <2>1 DEF GpuRun, Done
  <2> QED BY <1>3, <1>4, <2>2 DEF CbsEvolve
<1> QED BY <1>2, <1>6, <1>7

(***************************************************************************)
(* The order of conflicting kernels.                                       *)
(***************************************************************************)

LEMMA UseAccess ==
    ASSUME TypeInv, NEW i \in DOMAIN cbs, NEW u \in cbs[i].uses
    PROVE  u[1] \in Storage /\ (Reads(u[3]) \/ Writes(u[3]))
<1>1. cbs[i] \in CommandBuffer
  BY DEF TypeInv
<1>2. u \in Storage \X Buffer \X Access
  BY <1>1 DEF CommandBuffer
<1> QED BY <1>2 DEF Access, Reads, Writes

\* ConflictsOrdered for one storage.
LEMMA OrderedByConflict ==
    ASSUME ConflictsOrdered, NEW i \in DOMAIN cbs, NEW j \in DOMAIN cbs, NEW s,
           i < j, cbs[i].tracked, Done(j), WritesTo(i, s), WritesTo(j, s)
    PROVE  Done(i)
  BY DEF ConflictsOrdered, WritesTo, Conflict, Done

\* Every step keeps conflicting uses in order.
LEMMA ConflictsOrderedStep ==
    ASSUME IInv, [Next]_vars
    PROVE  ConflictsOrdered'
<1> USE DEF IInv
<1>1. SUFFICES ASSUME NEW i \in DOMAIN cbs', NEW j \in DOMAIN cbs',
                      i < j, cbs'[i].tracked, Done(j)', ~Done(i)',
                      NEW u \in cbs'[i].uses, NEW v \in cbs'[j].uses,
                      u[1] = v[1], Conflict(u, v)
               PROVE  FALSE
  BY DEF ConflictsOrdered, Done, Conflict
<1>2. j \in DOMAIN cbs /\ (Done(j) \/ GpuRun(j))
  BY <1>1, CbsBack
<1>3. CbsEvolve
  BY CbsStep
<1>4. i \in DOMAIN cbs /\ j \in Nat /\ i \in Nat /\ i <= Len(cbs) /\ j <= Len(cbs)
  <2>1. cbs \in Seq(CommandBuffer) /\ cbs' \in Seq(CommandBuffer)
    BY <1>3 DEF CbsEvolve, TypeInv
  <2> QED BY <1>1, <1>2, <2>1
<1>5. cbs[i].tracked
  BY <1>1, <1>4, CbsBack DEF Current
<1>6. ~Done(i) /\ u \in cbs[i].uses /\ v \in cbs[j].uses
  BY <1>1, <1>2, <1>3, <1>4 DEF CbsEvolve
<1>7. CASE Done(j)
  BY <1>1, <1>2, <1>4, <1>5, <1>6, <1>7 DEF ConflictsOrdered, Done
<1>8. CASE GpuRun(j)
  <2> DEFINE s == u[1]
  <2>1. /\ s \in Storage /\ s = v[1]
        /\ (Reads(u[3]) \/ Writes(u[3])) /\ (Reads(v[3]) \/ Writes(v[3]))
    BY <1>1, <1>2, <1>4, <1>6, UseAccess
  <2>2. ~Waiting(j)
    <3>1. ~Idle => j # Current
      BY <1>8, CurrentInDomain DEF GpuRun
    <3> QED BY <3>1 DEF Waiting, Idle
  <2>3. WaitsForReaders(j) /\ WaitsForWriters(j)
    BY <1>2, <2>2 DEF WaitsCover
  <2>4. \A w \in cbs[j].waits : w \in DOMAIN cbs /\ w \in Nat /\ cbs[w].tracked /\ Done(w)
    BY <1>2, <1>8 DEF WaitsCover, GpuRun, Done, TypeInv
  <2>5. CASE Writes(u[3])
    <3>1. WritesTo(i, s) /\ (ReadsFrom(j, s) \/ WritesTo(j, s))
      BY <1>6, <2>1, <2>5, UseAccess, <1>2 DEF WritesTo, ReadsFrom
    <3>2. PICK w \in cbs[j].waits : w >= i /\ WritesTo(w, s)
      BY <1>1, <1>4, <1>5, <1>6, <2>1, <2>3, <3>1 DEF WaitsForWriters
    <3>3. w \in DOMAIN cbs /\ w \in Nat /\ Done(w)
      BY <2>4
    <3>4. i < w
      BY <1>4, <1>6, <3>2, <3>3
    <3> HIDE DEF s
    <3> QED BY <1>4, <1>5, <1>6, <3>1, <3>2, <3>3, <3>4, OrderedByConflict
  <2>6. CASE ~Writes(u[3])
    <3>1. ReadsFrom(i, s) /\ WritesTo(j, s)
      BY <1>1, <1>2, <1>4, <1>6, <2>1, <2>6, UseAccess DEF WritesTo, ReadsFrom, Conflict
    <3>2. PICK w \in cbs[j].waits : w >= i /\ cbs[w].queue = cbs[i].queue
      BY <1>1, <1>4, <1>5, <1>6, <2>1, <2>3, <3>1 DEF WaitsForReaders
    <3>3. w \in DOMAIN cbs /\ w \in Nat /\ Done(w)
      BY <2>4
    <3>4. i < w
      BY <1>4, <1>6, <3>2, <3>3
    <3> QED BY <1>4, <1>6, <3>2, <3>3, <3>4 DEF QueueInOrder
  <2> QED BY <2>5, <2>6
<1> QED BY <1>2, <1>7, <1>8

\* The fence behind a use of the kernel in progress.
LEMMA KernelField ==
    ASSUME TypeInv, SessionInv, ~Idle, NEW u \in cbs[Current].uses
    PROVE  \E x \in DOMAIN session.kernel :
             /\ session.kernel[x].storage = u[1] /\ session.kernel[x].access = u[3]
             /\ storages[u[1]].state = "live"
  BY DEF SessionInv

\* What a kernel waits for covers the kernels it conflicts with.
LEMMA WaitDependenciesCover ==
    ASSUME IInv, WaitDependencies
    PROVE  /\ \A w \in cbs'[Current].waits : w \in DOMAIN cbs /\ cbs[w].tracked
           /\ \A s \in Storage, i \in DOMAIN cbs :
                (WritesTo(Current, s) /\ cbs[i].tracked /\ ReadsFrom(i, s)) =>
                  \/ Done(i)
                  \/ \E w \in cbs'[Current].waits : w >= i /\ cbs[w].queue = cbs[i].queue
           /\ \A s \in Storage, i \in DOMAIN cbs :
                ((ReadsFrom(Current, s) \/ WritesTo(Current, s)) /\ cbs[i].tracked
                   /\ WritesTo(i, s)) =>
                  \/ Done(i)
                  \/ \E w \in cbs'[Current].waits : w >= i /\ WritesTo(w, s)
<1> USE DEF IInv
<1> DEFINE k == session.kernel
           fs == UNION {DependencyFences(k[x]) : x \in DOMAIN k}
           W == {fences[f].updated : f \in fs} \ {0}
<1>1. cbs'[Current].waits = W
  BY WaitEffect
<1>2. ~Idle /\ k \in Seq(Field)
  BY CurrentInDomain DEF WaitDependencies, Idle
<1>3. fs \in SUBSET Fence
  BY <1>2, DependencyFencesType
<1>4. ASSUME NEW x \in DOMAIN k, NEW f \in DependencyFences(k[x]), fences[f].updated # 0
      PROVE  fences[f].updated \in W
  BY <1>4
<1>5. ASSUME NEW w \in W PROVE w \in DOMAIN cbs /\ cbs[w].tracked
  <2>1. PICK f \in fs : w = fences[f].updated /\ w # 0
    OBVIOUS
  <2>2. FenceBinding(f)
    BY <1>3, <2>1 DEF FencesBound
  <2> QED BY <2>1, <2>2 DEF FenceBinding
<1>6. ASSUME NEW i \in DOMAIN cbs PROVE i \in Nat \ {0}
  BY DEF TypeInv
<1>7. ASSUME NEW f \in Fence, NEW i \in DOMAIN cbs, fences[f].updated >= i
      PROVE  fences[f].updated # 0
  <2>1. fences[f].updated \in Nat
    BY DEF TypeInv, FenceState
  <2> QED BY <1>6, <1>7, <2>1
<1>8. ASSUME NEW s \in Storage, NEW i \in DOMAIN cbs, WritesTo(Current, s), cbs[i].tracked,
             ReadsFrom(i, s), ~Done(i)
      PROVE  \E w \in W : w >= i /\ cbs[w].queue = cbs[i].queue
  <2>1. PICK u \in cbs[Current].uses : u[1] = s /\ Writes(u[3])
    BY <1>8 DEF WritesTo
  <2>2. PICK x \in DOMAIN k : /\ k[x].storage = s /\ Writes(k[x].access)
                              /\ storages[s].state = "live"
    BY <1>2, <2>1, KernelField
  <2>3. PICK y \in DOMAIN storages[s].reads :
          LET f == storages[s].reads[y]
          IN  f \in Fence /\ fences[f].queue = cbs[i].queue /\ fences[f].updated >= i
    BY <1>8, <2>2 DEF ReadsCovered, ReadCovered
  <2> DEFINE f == storages[s].reads[y]
  <2>4. f \in DependencyFences(k[x])
    <3>1. f \in ToSet(storages[s].reads) /\ f # None
      BY <2>3, MpsKernelSyncConstants DEF ToSet
    <3> QED BY <2>2, <3>1 DEF DependencyFences
  <2> HIDE DEF f
  <2>5. f \in Fence /\ fences[f].queue = cbs[i].queue /\ fences[f].updated >= i
    BY <2>3 DEF f
  <2>6. fences[f].updated # 0 /\ fences[f].updated \in W
    BY <1>4, <1>7, <2>4, <2>5
  <2>7. cbs[fences[f].updated].queue = fences[f].queue
    BY <2>5, <2>6 DEF FencesBound, FenceBinding
  <2> QED BY <2>5, <2>6, <2>7
<1>9. ASSUME NEW s \in Storage, NEW i \in DOMAIN cbs,
             ReadsFrom(Current, s) \/ WritesTo(Current, s), cbs[i].tracked,
             WritesTo(i, s), ~Done(i)
      PROVE  \E w \in W : w >= i /\ WritesTo(w, s)
  <2>1. PICK u \in cbs[Current].uses : u[1] = s
    BY <1>9 DEF WritesTo, ReadsFrom
  <2>2. PICK x \in DOMAIN k : k[x].storage = s /\ storages[s].state = "live"
    BY <1>2, <2>1, KernelField
  <2> DEFINE f == storages[s].write
  <2>3. f \in Fence /\ fences[f].updated >= i /\ WritesTo(fences[f].updated, s)
    BY <1>9, <2>2 DEF WritesCovered, WriteCovered
  <2>4. f \in DependencyFences(k[x])
    BY <2>2, <2>3, MpsKernelSyncConstants DEF DependencyFences
  <2> HIDE DEF f
  <2>5. fences[f].updated \in W
    BY <1>4, <1>7, <2>3, <2>4
  <2> QED BY <2>3, <2>5
<1> HIDE DEF W
<1> QED BY <1>1, <1>5, <1>8, <1>9

\* Only WaitDependencies ends the wait of a kernel function.
LEMMA WaitingEnds ==
    ASSUME TypeInv, [Next]_vars, NEW k \in DOMAIN cbs, Waiting(k)
    PROVE  WaitDependencies \/ Waiting(k)'
<1>1. session.step = "wait" /\ k = Len(cbs)
  BY DEF Waiting, Current
<1>2. CASE UNCHANGED <<cbs, session>>
  BY <1>2 DEF Waiting, Current
<1>3. ASSUME NEW c \in DOMAIN cbs, GpuRun(c) PROVE Waiting(k)'
  BY <1>1, <1>3, GpuRunEffect DEF Waiting, Current, OnlyChanges, GpuRun
<1>4. CASE Next
  BY <1>1, <1>2, <1>3, <1>4
     DEF Next, Begin, Build, Drop, CheckFenceToken, UpdateTokens, UpdateTokensThrows, Finish,
         ReleaseReady, WaitUntilReady, ClearRefused, Idle
<1> QED BY <1>2, <1>4 DEF vars

\* Every step keeps: waits cover the conflicting kernels before them.
LEMMA WaitsCoverStep ==
    ASSUME IInv, [Next]_vars
    PROVE  WaitsCover'
<1> USE DEF IInv
<1>1. SUFFICES ASSUME NEW k \in DOMAIN cbs'
               PROVE  /\ \A w \in cbs'[k].waits : w \in DOMAIN cbs' /\ cbs'[w].tracked
                      /\ ~Waiting(k)' => WaitsForReaders(k)' /\ WaitsForWriters(k)'
  BY DEF WaitsCover
<1>2. CbsEvolve
  BY CbsStep
<1>3. cbs \in Seq(CommandBuffer) /\ cbs' \in Seq(CommandBuffer)
  BY <1>2 DEF CbsEvolve, TypeInv
\* Whichever step it is, what k waits for covers the earlier kernels.
<1>4. ASSUME k \in DOMAIN cbs,
             \A w \in cbs'[k].waits : w \in DOMAIN cbs /\ cbs[w].tracked,
             \A s \in Storage, i \in DOMAIN cbs :
               (WritesTo(k, s) /\ i < k /\ cbs[i].tracked /\ ReadsFrom(i, s)) =>
                  \/ Done(i)
                  \/ \E w \in cbs'[k].waits : w >= i /\ cbs[w].queue = cbs[i].queue,
             \A s \in Storage, i \in DOMAIN cbs :
               ((ReadsFrom(k, s) \/ WritesTo(k, s)) /\ i < k /\ cbs[i].tracked
                  /\ WritesTo(i, s)) =>
                  \/ Done(i)
                  \/ \E w \in cbs'[k].waits : w >= i /\ WritesTo(w, s)
      PROVE  WaitsForReaders(k)' /\ WaitsForWriters(k)'
  <2>1. ASSUME NEW i \in DOMAIN cbs', i < k, cbs'[i].tracked
        PROVE  i \in DOMAIN cbs /\ cbs[i].tracked
    <3>1. i \in DOMAIN cbs /\ i # Current
      BY <1>3, <1>4, <2>1 DEF Current
    <3> QED BY <2>1, <3>1, CbsBack
  <2>2. \A w \in cbs'[k].waits : w \in DOMAIN cbs
    BY <1>4
  <2>3. ASSUME NEW s \in Storage, NEW i \in DOMAIN cbs', WritesTo(k, s)', i < k,
               cbs'[i].tracked, ReadsFrom(i, s)', ~Done(i)'
        PROVE  \E w \in cbs'[k].waits : w >= i /\ cbs'[w].queue = cbs'[i].queue
    <3>1. i \in DOMAIN cbs /\ cbs[i].tracked /\ ~Done(i)
      BY <1>2, <2>1, <2>3 DEF CbsEvolve
    <3>2. WritesTo(k, s) /\ ReadsFrom(i, s)
      BY <1>2, <1>4, <2>3, <3>1, UsesKept
    <3>3. PICK w \in cbs'[k].waits : w >= i /\ cbs[w].queue = cbs[i].queue
      BY <1>4, <2>3, <3>1, <3>2
    <3>4. cbs'[w].queue = cbs'[i].queue
      BY <1>2, <2>2, <3>1, <3>3 DEF CbsEvolve
    <3> QED BY <3>3, <3>4
  <2>4. ASSUME NEW s \in Storage, NEW i \in DOMAIN cbs', ReadsFrom(k, s)' \/ WritesTo(k, s)',
               i < k, cbs'[i].tracked, WritesTo(i, s)', ~Done(i)'
        PROVE  \E w \in cbs'[k].waits : w >= i /\ WritesTo(w, s)'
    <3>1. i \in DOMAIN cbs /\ cbs[i].tracked /\ ~Done(i)
      BY <1>2, <2>1, <2>4 DEF CbsEvolve
    <3>2. (ReadsFrom(k, s) \/ WritesTo(k, s)) /\ WritesTo(i, s)
      BY <1>2, <1>4, <2>4, <3>1, UsesKept
    <3>3. PICK w \in cbs'[k].waits : w >= i /\ WritesTo(w, s)
      BY <1>4, <2>4, <3>1, <3>2
    <3>4. WritesTo(w, s)'
      BY <1>2, <2>2, <3>3, UsesKept
    <3> QED BY <3>3, <3>4
  <2> QED BY <2>3, <2>4 DEF WaitsForReaders, WaitsForWriters
<1>5. CASE k \in DOMAIN cbs /\ cbs'[k].waits = cbs[k].waits
  <2>1. \A w \in cbs'[k].waits : w \in DOMAIN cbs /\ cbs[w].tracked
    BY <1>5 DEF WaitsCover
  <2>2. \A w \in cbs'[k].waits : w \in DOMAIN cbs' /\ cbs'[w].tracked
    BY <1>2, <2>1 DEF CbsEvolve
  <2>3. ASSUME ~Waiting(k) PROVE WaitsForReaders(k)' /\ WaitsForWriters(k)'
    <3>1. WaitsForReaders(k) /\ WaitsForWriters(k)
      BY <1>5, <2>3 DEF WaitsCover
    <3> QED BY <1>4, <1>5, <2>1, <3>1 DEF WaitsForReaders, WaitsForWriters
  <2>4. ASSUME Waiting(k), WaitDependencies PROVE WaitsForReaders(k)' /\ WaitsForWriters(k)'
    <3>1. k = Current
      BY <2>4 DEF Waiting
    <3> QED BY <1>4, <1>5, <2>1, <2>4, <3>1, WaitDependenciesCover
  <2> QED BY <1>5, <2>2, <2>3, <2>4, WaitingEnds
<1>6. CASE WaitDependencies /\ k = Current
  <2>1. k \in DOMAIN cbs
    BY <1>6, CurrentInDomain DEF WaitDependencies, Idle
  <2>2. \A w \in cbs'[k].waits : w \in DOMAIN cbs /\ cbs[w].tracked
    BY <1>6, WaitDependenciesCover
  <2>3. \A w \in cbs'[k].waits : w \in DOMAIN cbs' /\ cbs'[w].tracked
    BY <1>2, <2>2 DEF CbsEvolve
  <2> QED BY <1>4, <1>6, <2>1, <2>2, <2>3, WaitDependenciesCover
<1>7. CASE k \notin DOMAIN cbs /\ cbs'[k].waits = {} /\ Waiting(k)'
  BY <1>7
<1> QED BY <1>5, <1>6, <1>7, CbsBack

(***************************************************************************)
(* Fences and registries.                                                  *)
(***************************************************************************)

\* A fence in use stays in its registry.
LEMMA ActiveKept ==
    ASSUME IInv, [Next]_vars, ~UpdateTokens, NEW q \in Queue, NEW x \in Active(registry[q]),
           fences'[registry[q].leases[x]].cb # 0
    PROVE  \E y \in Active(registry'[q]) : registry'[q].leases[y] = registry[q].leases[x]
<1> USE DEF IInv
<1>1. CASE registry'[q] = registry[q]
  BY <1>1
<1>2. ASSUME NEW r \in Queue, ReleaseReady(r)
      PROVE  \E y \in Active(registry'[q]) : registry'[q].leases[y] = registry[q].leases[x]
  <2>1. CASE r # q
    <3>1. registry'[q] = registry[q]
      BY <1>2, <2>1 DEF ReleaseReady, TypeInv
    <3> QED BY <1>1, <3>1
  <2>2. CASE r = q
    <3> DEFINE end == ReadyEnd(registry[q])
               reg == registry[q]
               new == registry'[q]
    <3>1. ~(x <= end)
      BY <1>2, <2>2, ReleaseReadySettles
    <3>2. ReleasedThrough(new, reg, end) /\ end \in Active(reg)
      BY <1>2, <2>2, ReleaseReadyEffect
    <3>3. reg \in RegistryState /\ reg.leases \in Seq(Lease)
      BY DEF TypeInv, RegistryState
    <3>4. x \in 1 .. Len(reg.leases) /\ end \in Nat /\ Len(reg.leases) \in Nat
      BY <3>2, <3>3 DEF Active
    <3> HIDE DEF end, reg, new
    <3>5. PICK d \in 0 .. end :
            /\ new.head = end - d /\ Len(new.leases) = Len(reg.leases) - d
            /\ \A y \in 1 .. Len(new.leases) :
                 new.leases[y] = IF y + d <= end THEN None ELSE reg.leases[y + d]
      BY <3>2 DEF ReleasedThrough
    <3>6. new.leases \in Seq(Lease)
      BY <3>2 DEF ReleasedThrough, RegistryState
    <3>7. x - d \in 1 .. Len(new.leases) /\ x - d > new.head /\ (x - d) + d = x
      BY <3>1, <3>4, <3>5
    <3>8. x - d \in Active(new) /\ new.leases[x - d] = reg.leases[x]
      <4> DEFINE y == x - d
      <4>1. y \in 1 .. Len(new.leases) /\ y > new.head /\ y + d = x
        BY <3>7
      <4> HIDE DEF y
      <4>2. new.leases[y] = reg.leases[x]
        BY <3>1, <3>5, <4>1
      <4>3. y \in Active(new)
        BY <3>6, <4>1 DEF Active
      <4> QED BY <4>2, <4>3 DEF y
    <3> QED BY <3>8 DEF reg, new
  <2> QED BY <2>1, <2>2
<1>3. ASSUME NEW r \in Queue, WaitUntilReady(r)
      PROVE  \E y \in Active(registry'[q]) : registry'[q].leases[y] = registry[q].leases[x]
  <2>1. r # q
    BY <1>3, WaitUntilReadySettles
  <2>2. registry'[q] = registry[q]
    BY <1>3, <2>1 DEF WaitUntilReady, TypeInv
  <2> QED BY <1>1, <2>2
<1>4. CASE UNCHANGED registry
  BY <1>1, <1>4
<1>5. CASE Next
  BY <1>2, <1>3, <1>4, <1>5
     DEF Next, Build, Drop, CheckFenceToken, Begin, WaitDependencies, UpdateTokensThrows, Finish,
         GpuRun, ClearRefused
<1> QED BY <1>4, <1>5 DEF vars

\* updateTokens appends to one registry.
LEMMA PushEffect ==
    ASSUME TypeInv, SessionInv, UpdateTokens, NEW f \in Fence, UpdatesWith(f)
    PROVE  LET q == cbs[Current].queue
           IN  /\ q \in Queue
               /\ \A r \in Queue : r # q => registry'[r] = registry[r]
               /\ registry'[q].leases \in Seq(Lease) /\ registry'[q].head = registry[q].head
               /\ Len(registry'[q].leases) = Len(registry[q].leases) + 1
               /\ registry'[q].leases[Len(registry[q].leases) + 1] = f
               /\ \A x \in DOMAIN registry[q].leases :
                    /\ x \in DOMAIN registry'[q].leases
                    /\ registry'[q].leases[x] = registry[q].leases[x]
<1> DEFINE q == cbs[Current].queue
<1>1. q \in Queue
  BY CurrentInDomain DEF UpdateTokens, Idle, CommandBuffer
<1> HIDE DEF q
<1>2. registry' = [registry EXCEPT ![q] = Push(registry[q], f)]
  BY DEF UpdatesWith, q
<1>3. registry[q] \in RegistryState /\ registry[q].leases \in Seq(Lease) /\ f \in Lease
  BY <1>1 DEF TypeInv, RegistryState, Lease
<1>4. /\ registry'[q] = Push(registry[q], f)
      /\ \A r \in Queue : r # q => registry'[r] = registry[r]
  BY <1>1, <1>2 DEF TypeInv
<1>5. registry'[q].head = registry[q].head /\ registry'[q].leases = Append(registry[q].leases, f)
  BY <1>3, <1>4, PushType
<1>6. LET s == registry[q].leases
      IN  /\ Append(s, f) \in Seq(Lease) /\ Len(Append(s, f)) = Len(s) + 1
          /\ Append(s, f)[Len(s) + 1] = f
          /\ \A x \in DOMAIN s : x \in DOMAIN Append(s, f) /\ Append(s, f)[x] = s[x]
  BY <1>3, SeqAppend
<1>7. /\ registry'[q].leases \in Seq(Lease)
      /\ Len(registry'[q].leases) = Len(registry[q].leases) + 1
      /\ registry'[q].leases[Len(registry[q].leases) + 1] = f
      /\ \A x \in DOMAIN registry[q].leases :
           x \in DOMAIN registry'[q].leases /\ registry'[q].leases[x] = registry[q].leases[x]
  BY <1>5, <1>6
<1> QED BY <1>1, <1>4, <1>5, <1>7 DEF q

\* Every step keeps the fences with the command buffers that update them.
LEMMA FencesBoundStep ==
    ASSUME IInv, [Next]_vars
    PROVE  FencesBound'
<1> USE DEF IInv
<1>1. SUFFICES ASSUME NEW f \in Fence PROVE FenceBinding(f)'
  BY DEF FencesBound
<1>2. CbsEvolve
  BY CbsStep
<1>3. FenceBinding(f)
  BY DEF FencesBound
\* What the binding says of the last update still holds of it.
<1>4. ASSUME fences'[f].queue = fences[f].queue, fences'[f].updated = fences[f].updated
      PROVE  /\ fences'[f].updated # 0 =>
                  /\ fences'[f].updated \in DOMAIN cbs'
                  /\ cbs'[fences'[f].updated].queue = fences'[f].queue
                  /\ cbs'[fences'[f].updated].tracked
             /\ Finished(fences[f].updated) => Finished(fences[f].updated)'
  <2>1. fences[f].updated # 0 => fences[f].updated \in DOMAIN cbs
    BY <1>3 DEF FenceBinding
  <2>2. Finished(fences[f].updated) => Finished(fences[f].updated)'
    BY <1>2, <1>4, <2>1 DEF CbsEvolve, Finished, Done
  <2> QED BY <1>2, <1>3, <1>4, <2>2 DEF CbsEvolve, FenceBinding
<1>5. CASE FencesSettle /\ ~UpdateTokens
  <2>1. /\ fences'[f].queue = fences[f].queue /\ fences'[f].updated = fences[f].updated
        /\ \/ fences'[f].cb = fences[f].cb
           \/ fences'[f].cb = 0 /\ Finished(fences[f].updated)
    BY <1>5 DEF FencesSettle
  <2>2. ASSUME fences'[f].cb # 0
        PROVE  /\ fences'[f].cb = fences'[f].updated
               /\ \E q \in Queue : /\ q = fences'[f].queue
                                   /\ \E x \in Active(registry'[q]) : registry'[q].leases[x] = f
    <3>1. fences[f].cb # 0 /\ fences'[f].cb = fences[f].cb
      BY <2>1, <2>2
    <3>2. PICK q \in Queue : /\ q = fences[f].queue
                             /\ \E x \in Active(registry[q]) : registry[q].leases[x] = f
      BY <1>3, <3>1 DEF FenceBinding
    <3>3. PICK x \in Active(registry[q]) : registry[q].leases[x] = f
      BY <3>2
    <3>4. \E y \in Active(registry'[q]) : registry'[q].leases[y] = f
      BY <1>5, <2>2, <3>3, ActiveKept
    <3> QED BY <1>3, <2>1, <3>1, <3>2, <3>4 DEF FenceBinding
  <2>3. fences'[f].cb = 0 => Finished(fences[f].updated)
    BY <1>3, <2>1 DEF FenceBinding
  <2>4. fences'[f].cb = 0 => Finished(fences[f].updated)'
    BY <1>4, <2>1, <2>3
  <2> QED BY <1>4, <2>1, <2>2, <2>4 DEF FenceBinding
<1>6. CASE UpdateTokens
  <2>1. PICK g \in Fence : UpdatesWith(g)
    BY <1>6, UpdateEffect
  <2> DEFINE q == cbs[Current].queue
  <2>2. /\ q \in Queue
        /\ \A r \in Queue : r # q => registry'[r] = registry[r]
        /\ registry'[q].leases \in Seq(Lease) /\ registry'[q].head = registry[q].head
        /\ Len(registry'[q].leases) = Len(registry[q].leases) + 1
        /\ registry'[q].leases[Len(registry[q].leases) + 1] = g
        /\ \A x \in DOMAIN registry[q].leases :
             x \in DOMAIN registry'[q].leases /\ registry'[q].leases[x] = registry[q].leases[x]
    BY <1>6, <2>1, PushEffect
  <2>3. CASE f = g
    <3>1. fences'[f].cb = Current /\ fences'[f].updated = Current /\ fences'[f].queue = q
      BY <2>1, <2>3 DEF UpdatesWith
    <3>2. Current \in DOMAIN cbs /\ Current \in Nat \ {0}
      BY <1>6, CurrentInDomain DEF UpdateTokens, Idle
    <3>3. Current \in DOMAIN cbs' /\ cbs'[Current].queue = q /\ cbs'[Current].tracked
      BY <1>6, <3>2, UpdateCbs DEF OnlyChanges
    <3>4. Len(registry[q].leases) + 1 \in Active(registry'[q])
      <4>1. registry[q].leases \in Seq(Lease) /\ registry[q].head <= Len(registry[q].leases)
            /\ registry[q].head \in Nat
        BY <2>2 DEF TypeInv, RegistryState, RegistriesInOrder, RegistryInOrder
      <4> DEFINE n == Len(registry[q].leases) + 1
      <4>2. n > registry'[q].head /\ n \in 1 .. Len(registry'[q].leases)
        <5>1. Len(registry[q].leases) \in Nat
          BY <4>1
        <5>2. registry'[q].head = registry[q].head /\ Len(registry'[q].leases) = n
          BY <2>2
        <5> HIDE DEF q
        <5> QED BY <4>1, <5>1, <5>2
      <4>3. n \in DOMAIN registry'[q].leases
        <5>1. DOMAIN registry'[q].leases = 1 .. Len(registry'[q].leases)
          BY <2>2
        <5> QED BY <4>2, <5>1, Zenon
      <4> QED BY <4>2, <4>3 DEF Active
    <3> HIDE DEF q
    <3> QED BY <2>2, <2>3, <3>1, <3>2, <3>3, <3>4 DEF FenceBinding
  <2>4. CASE f # g
    <3>1. fences'[f] = fences[f]
      BY <2>1, <2>4 DEF UpdatesWith
    <3>2. ASSUME NEW r \in Queue, NEW x \in Active(registry[r])
          PROVE  x \in Active(registry'[r]) /\ registry'[r].leases[x] = registry[r].leases[x]
      BY <2>2 DEF Active
    <3>3. fences[f].cb = 0 => Finished(fences[f].updated)'
      BY <1>3, <1>4, <3>1 DEF FenceBinding
    <3> QED BY <1>3, <1>4, <3>1, <3>2, <3>3 DEF FenceBinding
  <2> QED BY <2>3, <2>4
<1> QED BY <1>5, <1>6, FencesStep

\* Every step keeps each registry in the order of its queue.
LEMMA RegistriesInOrderStep ==
    ASSUME IInv, [Next]_vars
    PROVE  RegistriesInOrder'
<1> USE DEF IInv
<1>1. SUFFICES ASSUME NEW q \in Queue PROVE RegistryInOrder(q)'
  BY DEF RegistriesInOrder
<1>2. RegistryInOrder(q) /\ registry[q] \in RegistryState
  BY DEF RegistriesInOrder, TypeInv
<1>3. registry[q].leases \in Seq(Lease) /\ registry[q].head \in Nat
  BY <1>2 DEF RegistryState
<1>4. CASE FencesSettle /\ registry'[q] = registry[q]
  <2>1. \A x \in Active(registry[q]) : registry[q].leases[x] \in Fence
    BY <1>2 DEF RegistryInOrder
  <2>2. \A x \in Active(registry[q]) :
          LET f == registry[q].leases[x]
          IN  fences'[f].queue = fences[f].queue /\ fences'[f].updated = fences[f].updated
    BY <1>4, <2>1 DEF FencesSettle
  <2> QED BY <1>2, <1>4, <2>2 DEF RegistryInOrder
<1>5. CASE UpdateTokens
  <2>1. PICK f \in Fence : UpdatesWith(f)
    BY <1>5, UpdateEffect
  <2>2. /\ \A x \in DOMAIN registry[q].leases : registry[q].leases[x] # f
        /\ \A g \in Fence : g # f => fences'[g] = fences[g]
        /\ fences'[f].updated = Current /\ fences'[f].queue = cbs[Current].queue
    BY <2>1, FreeIsNotLeased DEF UpdatesWith
  <2>3. \A x \in Active(registry[q]) :
          /\ registry[q].leases[x] \in Fence
          /\ fences'[registry[q].leases[x]] = fences[registry[q].leases[x]]
    BY <1>2, <2>2 DEF RegistryInOrder, Active
  <2>4. CASE q # cbs[Current].queue
    <3>1. registry'[q] = registry[q]
      BY <1>5, <2>1, <2>4, PushEffect
    <3> QED BY <1>2, <2>3, <3>1 DEF RegistryInOrder
  <2>5. CASE q = cbs[Current].queue
    <3> DEFINE reg == registry[q]
               new == registry'[q]
               n == Len(registry[q].leases) + 1
    <3>1. /\ new.leases \in Seq(Lease) /\ new.head = reg.head /\ Len(new.leases) = n
          /\ new.leases[n] = f
          /\ \A x \in DOMAIN reg.leases :
               x \in DOMAIN new.leases /\ new.leases[x] = reg.leases[x]
      BY <1>5, <2>1, <2>5, PushEffect
    <3>2. Current \in Nat \ {0} /\ \A i \in DOMAIN cbs : i <= Current
      BY <1>5, CurrentInDomain DEF UpdateTokens, Idle
    <3>3. ASSUME NEW x \in Active(new)
          PROVE  \/ x = n
                 \/ x \in Active(reg) /\ x < n /\ new.leases[x] = reg.leases[x]
      BY <1>3, <3>1 DEF Active
    <3>4. \A x \in Active(reg) : fences[reg.leases[x]].updated <= Current
      <4>1. ASSUME NEW x \in Active(reg) PROVE fences[reg.leases[x]].updated \in DOMAIN cbs
        BY <1>2, <2>3 DEF RegistryInOrder, FencesBound, FenceBinding
      <4> QED BY <3>2, <4>1
    <3>5. \A x \in Active(new) :
            /\ new.leases[x] \in Fence
            /\ fences'[new.leases[x]].queue = q
            /\ fences'[new.leases[x]].updated # 0
      <4>1. ASSUME NEW x \in Active(reg)
            PROVE  /\ reg.leases[x] \in Fence
                   /\ fences'[reg.leases[x]].queue = q
                   /\ fences'[reg.leases[x]].updated # 0
        BY <1>2, <2>3 DEF RegistryInOrder
      <4>2. fences'[f].queue = q /\ fences'[f].updated # 0
        BY <2>2, <2>5, <3>2
      <4> QED BY <3>1, <3>3, <4>1, <4>2
    <3>6. ASSUME NEW x \in Active(new), NEW y \in Active(new), x < y
          PROVE  fences'[new.leases[x]].updated <= fences'[new.leases[y]].updated
      <4>1. x \in 1 .. n /\ y \in 1 .. n /\ n \in Nat
        BY <1>3, <3>1 DEF Active
      <4>2. x \in Active(reg) /\ new.leases[x] = reg.leases[x]
        BY <3>3, <3>6, <4>1
      <4>3. CASE y = n
        BY <2>2, <2>3, <3>1, <3>4, <4>2, <4>3
      <4>4. CASE y \in Active(reg) /\ new.leases[y] = reg.leases[y]
        BY <1>2, <2>3, <3>6, <4>2, <4>4 DEF RegistryInOrder
      <4> QED BY <3>3, <4>3, <4>4
    <3>7. /\ new.head <= Len(new.leases)
          /\ new.head # 0 => new.head < Len(new.leases) \div 2
      <4>1. /\ reg.head <= Len(reg.leases)
            /\ reg.head # 0 => reg.head < Len(reg.leases) \div 2
        BY <1>2 DEF RegistryInOrder
      <4>2. Len(reg.leases) \in Nat /\ Len(new.leases) = Len(reg.leases) + 1
        BY <1>3, <3>1
      <4>3. new.head = reg.head
        BY <3>1
      <4>4. reg.head \in Nat
        BY <1>3
      <4> DEFINE h == reg.head
                 l == Len(reg.leases)
      <4>5. /\ h \in Nat /\ l \in Nat /\ h <= l /\ (h # 0 => h < l \div 2)
            /\ l \div 2 <= (l + 1) \div 2 /\ l \div 2 \in Nat /\ (l + 1) \div 2 \in Nat
        BY <4>1, <4>2, <4>4, HalfGrows
      <4>6. new.head = h /\ Len(new.leases) = l + 1
        BY <4>2, <4>3
      <4> HIDE DEF n, reg, new, h, l
      <4>7. h <= l + 1 /\ (h # 0 => h < (l + 1) \div 2)
        BY <4>5
      <4> QED BY <4>6, <4>7
    <3>8. \A x \in DOMAIN new.leases : x <= new.head => new.leases[x] = None
      <4>1. ASSUME NEW x \in DOMAIN new.leases, x <= new.head PROVE x \in DOMAIN reg.leases
        BY <1>2, <1>3, <3>1, <4>1 DEF RegistryInOrder
      <4> QED BY <1>2, <3>1, <4>1 DEF RegistryInOrder
    <3> HIDE DEF n
    <3> QED BY <3>5, <3>6, <3>7, <3>8 DEF RegistryInOrder
  <2> QED BY <2>4, <2>5
<1>6. CASE ReleaseReady(q)
  <2> DEFINE end == ReadyEnd(registry[q])
             reg == registry[q]
             new == registry'[q]
  <2>1. FencesSettle /\ ReleasedThrough(new, reg, end) /\ end \in Active(reg)
    BY <1>6, ReleaseReadySettles, ReleaseReadyEffect
  <2>2. end \in Nat /\ end > reg.head /\ end <= Len(reg.leases) /\ Len(reg.leases) \in Nat
    BY <1>3, <2>1 DEF Active
  <2>3. /\ \A x \in Active(reg) :
             /\ reg.leases[x] \in Fence
             /\ fences[reg.leases[x]].queue = q
             /\ fences[reg.leases[x]].updated # 0
        /\ \A x, y \in Active(reg) :
             x < y => fences[reg.leases[x]].updated <= fences[reg.leases[y]].updated
    BY <1>2 DEF RegistryInOrder
  <2>4. \A x \in DOMAIN reg.leases : x > end => x \in Active(reg)
    BY <1>3, <2>2 DEF Active
  <2> HIDE DEF end
  <2>5. PICK d \in 0 .. end :
          /\ new.head = end - d /\ Len(new.leases) = Len(reg.leases) - d
          /\ \A y \in 1 .. Len(new.leases) :
               new.leases[y] = IF y + d <= end THEN None ELSE reg.leases[y + d]
    BY <2>1 DEF ReleasedThrough
  <2>6. /\ new.leases \in Seq(Lease)
        /\ new.head # 0 => new.head < Len(new.leases) \div 2
    BY <2>1 DEF ReleasedThrough, RegistryState
  <2>7. new.head <= Len(new.leases)
    BY <2>2, <2>5
  <2>8. ASSUME NEW x \in DOMAIN new.leases, x <= new.head PROVE new.leases[x] = None
    <3>1. x \in 1 .. Len(new.leases)
      BY <2>6, <2>8
    <3>2. x <= end - d /\ x \in Int /\ d \in Int /\ end \in Int
      BY <2>2, <2>5, <2>8, <3>1
    <3>3. x + d <= end
      <4> HIDE DEF new, reg
      <4> QED BY <3>2
    <3> QED BY <2>5, <3>1, <3>3
  <2>9. ASSUME NEW x \in Active(new)
        PROVE  x + d \in Active(reg) /\ new.leases[x] = reg.leases[x + d]
    <3>1. x \in 1 .. Len(new.leases) /\ x > new.head
      BY <2>6 DEF Active
    <3>2. x + d \in 1 .. Len(reg.leases) /\ x + d > end /\ ~(x + d <= end)
      BY <2>2, <2>5, <3>1
    <3>3. x + d \in DOMAIN reg.leases
      BY <1>3, <3>2
    <3> QED BY <2>4, <2>5, <3>1, <3>2, <3>3
  <2>10. \A f \in Fence : fences'[f].queue = fences[f].queue /\ fences'[f].updated = fences[f].updated
    BY <2>1 DEF FencesSettle
  <2>11. \A x \in Active(new) :
           /\ new.leases[x] \in Fence
           /\ fences'[new.leases[x]].queue = q
           /\ fences'[new.leases[x]].updated # 0
    BY <2>3, <2>9, <2>10
  <2>12. ASSUME NEW x \in Active(new), NEW y \in Active(new), x < y
         PROVE  fences'[new.leases[x]].updated <= fences'[new.leases[y]].updated
    <3>1. x + d < y + d
      BY <2>6, <2>12 DEF Active
    <3>2. fences[reg.leases[x + d]].updated <= fences[reg.leases[y + d]].updated
      BY <2>3, <2>9, <3>1
    <3> QED BY <2>9, <2>10, <2>11, <3>2
  <2> HIDE DEF reg
  <2> QED BY <2>6, <2>7, <2>8, <2>11, <2>12 DEF RegistryInOrder
<1>7. CASE WaitUntilReady(q)
  <2>1. registry'[q] = [leases |-> <<>>, head |-> 0]
    BY <1>7 DEF WaitUntilReady, EmptyRegistry, TypeInv
  <2>2. registry'[q].leases = <<>> /\ registry'[q].head = 0
    BY <2>1
  <2>3. Active(registry'[q]) = {} /\ DOMAIN registry'[q].leases = {} /\ Len(registry'[q].leases) = 0
    BY <2>2 DEF Active
  <2> QED BY <2>2, <2>3 DEF RegistryInOrder
<1>8. ASSUME NEW r \in Queue, r # q, ReleaseReady(r) \/ WaitUntilReady(r)
      PROVE  registry'[q] = registry[q]
  BY <1>8 DEF ReleaseReady, WaitUntilReady, TypeInv
<1>9. ASSUME ~UpdateTokens, ~ReleaseReady(q), ~WaitUntilReady(q) PROVE registry'[q] = registry[q]
  <2>1. CASE Next
    BY <1>8, <1>9, <2>1
       DEF Next, Build, Drop, CheckFenceToken, Begin, WaitDependencies, UpdateTokensThrows, Finish,
           GpuRun, ClearRefused
  <2> QED BY <2>1 DEF vars
<1> QED BY <1>4, <1>5, <1>6, <1>7, <1>9, FencesStep

(***************************************************************************)
(* The tokens.                                                             *)
(***************************************************************************)

\* A step other than updateTokens takes no fence from the token of a live
\* storage but fences whose last update has happened.
LEMMA TokenKept ==
    ASSUME IInv, [Next]_vars, ~UpdateTokens, NEW s \in Storage, storages'[s].state = "live"
    PROVE  \/ storages[s].state = "unbuilt"
           \/ /\ storages[s].state = "live"
              /\ \/ storages'[s].write = storages[s].write
                 \/ storages[s].write = None
                 \/ Finished(fences[storages[s].write].updated)
              /\ \A x \in DOMAIN storages[s].reads :
                   /\ x \in DOMAIN storages'[s].reads
                   /\ \/ storages'[s].reads[x] = storages[s].reads[x]
                      \/ storages[s].reads[x] = None
                      \/ Finished(fences[storages[s].reads[x]].updated)
<1> USE DEF IInv
<1>1. CASE storages'[s] = storages[s]
  BY <1>1
<1>2. ASSUME NEW r \in Storage, Build(r)
      PROVE  storages[s].state = "unbuilt" \/ storages'[s] = storages[s]
  BY <1>2 DEF Build, TypeInv
<1>3. ASSUME NEW r \in Storage, Drop(r)
      PROVE  storages'[s] = storages[s]
  BY <1>3 DEF Drop, EmptyToken, TypeInv
<1>4. ASSUME NEW r \in Storage, CheckFenceToken(r), r # s
      PROVE  storages'[s] = storages[s]
  BY <1>4, CheckFenceTokenEffect
<1>5. ASSUME CheckFenceToken(s)
      PROVE  /\ storages[s].state = "live"
             /\ \/ storages'[s].write = storages[s].write
                \/ storages[s].write = None
                \/ Finished(fences[storages[s].write].updated)
             /\ \A x \in DOMAIN storages[s].reads :
                  /\ x \in DOMAIN storages'[s].reads
                  /\ \/ storages'[s].reads[x] = storages[s].reads[x]
                     \/ storages[s].reads[x] = None
                     \/ Finished(fences[storages[s].reads[x]].updated)
  BY <1>5, CheckFenceTokenEffect DEF CheckFenceToken
<1>6. CASE UNCHANGED storages
  BY <1>1, <1>6
<1>7. CASE Next
  BY <1>1, <1>2, <1>3, <1>4, <1>5, <1>6, <1>7
     DEF Next, Begin, WaitDependencies, UpdateTokensThrows, Finish, GpuRun, ReleaseReady,
         WaitUntilReady, ClearRefused
<1> QED BY <1>6, <1>7 DEF vars

\* A storage that was not built has been used by no kernel.
LEMMA UnbuiltUnused ==
    ASSUME TypeInv, UsedBuilt, NEW s \in Storage, storages[s].state = "unbuilt",
           NEW i \in DOMAIN cbs
    PROVE  ~ReadsFrom(i, s) /\ ~WritesTo(i, s)
  BY DEF UsedBuilt, ReadsFrom, WritesTo

\* A fence whose last update is done covers nothing that is not done.
LEMMA FinishedCovers ==
    ASSUME TypeInv, QueueInOrder, ConflictsOrdered, FencesBound, NEW f \in Fence,
           NEW i \in DOMAIN cbs, fences[f].updated >= i, Finished(fences[f].updated)
    PROVE  /\ fences[f].queue = cbs[i].queue => Done(i)
           /\ \A s : (cbs[i].tracked /\ WritesTo(i, s) /\ WritesTo(fences[f].updated, s)) => Done(i)
<1> DEFINE w == fences[f].updated
<1>1. i \in Nat \ {0} /\ w \in Nat
  BY DEF TypeInv, FenceState
<1>2. w # 0
  BY <1>1
<1>3. w \in DOMAIN cbs /\ cbs[w].queue = fences[f].queue /\ Done(w)
  BY <1>2 DEF FencesBound, FenceBinding, Finished, Done
<1>4. i < w \/ i = w
  BY <1>1
<1> HIDE DEF w
<1>5. fences[f].queue = cbs[i].queue => Done(i)
  BY <1>3, <1>4 DEF QueueInOrder
<1>6. \A s : (cbs[i].tracked /\ WritesTo(i, s) /\ WritesTo(w, s)) => Done(i)
  BY <1>3, <1>4, OrderedByConflict
<1> QED BY <1>5, <1>6 DEF w

\* Every step keeps: the token of a storage covers its reads ...
LEMMA ReadsCoveredStep ==
    ASSUME IInv, [Next]_vars
    PROVE  ReadsCovered'
<1> USE DEF IInv
<1>1. SUFFICES ASSUME NEW s \in Storage, storages'[s].state = "live", NEW i \in DOMAIN cbs',
                      cbs'[i].tracked, ReadsFrom(i, s)', ~Done(i)'
               PROVE  \E x \in DOMAIN storages'[s].reads :
                        LET f == storages'[s].reads[x]
                        IN  /\ f \in Fence /\ fences'[f].queue = cbs'[i].queue
                            /\ fences'[f].updated >= i
  BY DEF ReadsCovered, ReadCovered
<1>2. CbsEvolve /\ i \in DOMAIN cbs /\ (cbs[i].tracked \/ (UpdateTokens /\ i = Current))
  BY <1>1, CbsStep, CbsBack
<1>3. ReadsFrom(i, s) /\ ~Done(i) /\ cbs'[i].queue = cbs[i].queue
  BY <1>1, <1>2, UsesKept DEF CbsEvolve
<1>4. CASE ~UpdateTokens
  <2>1. cbs[i].tracked
    BY <1>2, <1>4
  <2>2. /\ storages[s].state = "live"
        /\ \A x \in DOMAIN storages[s].reads :
             /\ x \in DOMAIN storages'[s].reads
             /\ \/ storages'[s].reads[x] = storages[s].reads[x]
                \/ storages[s].reads[x] = None
                \/ Finished(fences[storages[s].reads[x]].updated)
    BY <1>1, <1>2, <1>3, <1>4, TokenKept, UnbuiltUnused
  <2>3. PICK x \in DOMAIN storages[s].reads :
          LET f == storages[s].reads[x]
          IN  f \in Fence /\ fences[f].queue = cbs[i].queue /\ fences[f].updated >= i
    BY <1>2, <1>3, <2>1, <2>2 DEF ReadsCovered, ReadCovered
  <2> DEFINE f == storages[s].reads[x]
  <2>4. f \in Fence /\ fences[f].queue = cbs[i].queue /\ fences[f].updated >= i
    BY <2>3
  <2>5. ~Finished(fences[f].updated)
    <3> HIDE DEF f
    <3> QED BY <1>2, <1>3, <2>4, FinishedCovers
  <2>6. x \in DOMAIN storages'[s].reads /\ storages'[s].reads[x] = f
    BY <2>2, <2>4, <2>5, MpsKernelSyncConstants
  <2>7. fences'[f].queue = fences[f].queue /\ fences'[f].updated = fences[f].updated
    BY <1>4, <2>4, FencesStep DEF FencesSettle
  <2> HIDE DEF f
  <2> QED BY <1>3, <2>4, <2>6, <2>7
<1>5. CASE UpdateTokens
  <2>1. PICK g \in Fence : UpdatesWith(g)
    BY <1>5, UpdateEffect
  <2>2. /\ fences'[g].updated = Current /\ fences'[g].queue = cbs[Current].queue
        /\ \A f \in Fence : f # g => fences'[f] = fences[f]
        /\ storages'[s].state = storages[s].state
        /\ ReadsFrom(Current, s) =>
             \E x \in DOMAIN storages'[s].reads : storages'[s].reads[x] = g
        /\ \A x \in DOMAIN storages[s].reads :
             /\ x \in DOMAIN storages'[s].reads
             /\ \/ storages'[s].reads[x] = storages[s].reads[x]
                \/ /\ storages'[s].reads[x] = g /\ storages[s].reads[x] \in Fence
                   /\ fences[storages[s].reads[x]].queue = cbs[Current].queue
        /\ \A x \in DOMAIN storages[s].reads : storages[s].reads[x] # g
    BY <2>1, FreeIsNotLeased DEF UpdatesWith
  <2>3. i <= Current /\ Current \in Nat /\ i \in Nat
    BY <1>2, <1>5, CurrentInDomain DEF UpdateTokens, Idle, TypeInv
  <2>4. CASE i = Current
    <3>1. PICK x \in DOMAIN storages'[s].reads : storages'[s].reads[x] = g
      BY <1>3, <2>2, <2>4
    <3>2. fences'[g].queue = cbs'[i].queue /\ fences'[g].updated >= i
      BY <1>3, <2>2, <2>3, <2>4
    <3> QED BY <3>1, <3>2
  <2>5. CASE i # Current
    <3>1. cbs[i].tracked /\ storages[s].state = "live"
      BY <1>1, <1>2, <2>2, <2>5
    <3>2. PICK x \in DOMAIN storages[s].reads :
            LET f == storages[s].reads[x]
            IN  f \in Fence /\ fences[f].queue = cbs[i].queue /\ fences[f].updated >= i
      BY <1>2, <1>3, <3>1 DEF ReadsCovered, ReadCovered
    <3> DEFINE f == storages[s].reads[x]
    <3>3. /\ f \in Fence /\ fences[f].queue = cbs[i].queue /\ fences[f].updated >= i
          /\ f # g /\ fences'[f] = fences[f]
      BY <2>2, <3>2
    <3>4. /\ x \in DOMAIN storages'[s].reads
          /\ \/ storages'[s].reads[x] = f
             \/ storages'[s].reads[x] = g /\ fences[f].queue = cbs[Current].queue
      BY <2>2
    <3> HIDE DEF f
    <3>5. CASE storages'[s].reads[x] = f
      BY <1>3, <3>3, <3>4, <3>5
    <3>6. CASE storages'[s].reads[x] = g /\ fences[f].queue = cbs[Current].queue
      <4>1. fences'[g].queue = cbs'[i].queue /\ fences'[g].updated >= i
        BY <1>3, <2>2, <2>3, <3>3, <3>6
      <4> QED BY <3>4, <3>6, <4>1
    <3> QED BY <3>4, <3>5, <3>6
  <2> QED BY <2>4, <2>5
<1> QED BY <1>4, <1>5

\* ... and its writes.
LEMMA WritesCoveredStep ==
    ASSUME IInv, [Next]_vars
    PROVE  WritesCovered'
<1> USE DEF IInv
<1>1. SUFFICES ASSUME NEW s \in Storage, storages'[s].state = "live", NEW i \in DOMAIN cbs',
                      cbs'[i].tracked, WritesTo(i, s)', ~Done(i)'
               PROVE  WriteCovered(s, i)'
  BY DEF WritesCovered, WriteCovered
<1>2. CbsEvolve /\ i \in DOMAIN cbs /\ (cbs[i].tracked \/ (UpdateTokens /\ i = Current))
  BY <1>1, CbsStep, CbsBack
<1>3. WritesTo(i, s) /\ ~Done(i)
  BY <1>1, <1>2, UsesKept DEF CbsEvolve
\* The write fence of a covered kernel still covers it as long as it stays.
<1>4. ASSUME NEW f \in Fence, fences[f].updated >= i, WritesTo(fences[f].updated, s),
             fences'[f].updated = fences[f].updated, storages'[s].write = f
      PROVE  WriteCovered(s, i)'
  <2>1. fences[f].updated # 0
    BY <1>2, <1>4 DEF TypeInv, FenceState
  <2>2. PICK w \in DOMAIN cbs : w = fences[f].updated
    BY <2>1 DEF FencesBound, FenceBinding
  <2>3. WritesTo(w, s)'
    BY <1>2, <1>4, <2>2, UsesKept
  <2>4. fences'[f].updated = w /\ w >= i
    BY <1>4, <2>2
  <2> QED BY <1>4, <2>3, <2>4 DEF WriteCovered, WritesTo
<1>5. CASE ~UpdateTokens
  <2>1. cbs[i].tracked
    BY <1>2, <1>5
  <2> DEFINE f == storages[s].write
  <2>2. /\ storages[s].state = "live"
        /\ storages'[s].write = f \/ f = None \/ Finished(fences[f].updated)
    BY <1>1, <1>2, <1>3, <1>5, TokenKept, UnbuiltUnused
  <2>3. f \in Fence /\ fences[f].updated >= i /\ WritesTo(fences[f].updated, s)
    BY <1>2, <1>3, <2>1, <2>2 DEF WritesCovered, WriteCovered
  <2> HIDE DEF f
  <2>4. ~Finished(fences[f].updated)
    BY <1>2, <1>3, <2>1, <2>3, FinishedCovers
  <2>5. storages'[s].write = f
    BY <2>2, <2>3, <2>4, MpsKernelSyncConstants
  <2>6. fences'[f].updated = fences[f].updated
    BY <1>5, <2>3, FencesStep DEF FencesSettle
  <2> QED BY <1>4, <2>3, <2>5, <2>6
<1>6. CASE UpdateTokens
  <2>1. PICK g \in Fence : UpdatesWith(g)
    BY <1>6, UpdateEffect
  <2>2. /\ fences'[g].updated = Current
        /\ \A f \in Fence : f # g => fences'[f] = fences[f]
        /\ storages'[s].state = storages[s].state
        /\ storages'[s].write = IF WritesTo(Current, s) THEN g ELSE storages[s].write
        /\ storages[s].write # g
    BY <2>1, FreeIsNotLeased DEF UpdatesWith
  <2>3. Current \in DOMAIN cbs /\ i <= Current /\ Current \in Nat /\ i \in Nat
    BY <1>2, <1>6, CurrentInDomain DEF UpdateTokens, Idle, TypeInv
  <2>4. CASE WritesTo(Current, s)
    <3>1. PICK c \in DOMAIN cbs : c = Current
      BY <2>3
    <3>2. WritesTo(c, s)'
      BY <1>2, <2>4, <3>1, UsesKept
    <3>3. storages'[s].write = g /\ fences'[g].updated = c /\ c >= i
      BY <2>2, <2>3, <2>4, <3>1
    <3> QED BY <3>2, <3>3 DEF WriteCovered, WritesTo
  <2>5. CASE ~WritesTo(Current, s)
    <3>1. i # Current /\ cbs[i].tracked /\ storages[s].state = "live"
      BY <1>1, <1>2, <1>3, <2>2, <2>5
    <3> DEFINE f == storages[s].write
    <3>2. f \in Fence /\ fences[f].updated >= i /\ WritesTo(fences[f].updated, s)
      BY <1>2, <1>3, <3>1 DEF WritesCovered, WriteCovered
    <3>3. storages'[s].write = f /\ fences'[f] = fences[f]
      BY <2>2, <2>5, <3>2
    <3> HIDE DEF f
    <3> QED BY <1>4, <3>2, <3>3
  <2> QED BY <2>4, <2>5
<1> QED BY <1>5, <1>6

\* Every step keeps: the reuse token of a buffer covers its users.
LEMMA HazardsCoverStep ==
    ASSUME IInv, [Next]_vars
    PROVE  HazardsCover'
<1> USE DEF IInv
<1>1. SUFFICES ASSUME NEW b \in Buffer
               PROVE  /\ \A x \in DOMAIN buffers'[b] :
                           /\ buffers'[b][x].cb \in DOMAIN cbs'
                           /\ cbs'[buffers'[b][x].cb].queue = buffers'[b][x].queue
                      /\ \A i \in DOMAIN cbs' :
                           (cbs'[i].tracked /\ Touches(i, b)') => HazardCovered(b, i)'
  BY DEF HazardsCover
<1>2. CbsEvolve
  BY CbsStep
<1>3. ASSUME NEW i \in DOMAIN cbs', cbs'[i].tracked, Touches(i, b)'
      PROVE  /\ i \in DOMAIN cbs /\ cbs'[i].queue = cbs[i].queue /\ Touches(i, b)
             /\ \/ UpdateTokens /\ i = Current
                \/ HazardCovered(b, i)
  <2>1. i \in DOMAIN cbs /\ (cbs[i].tracked \/ (UpdateTokens /\ i = Current))
    BY <1>3, CbsBack
  <2>2. Touches(i, b) /\ cbs'[i].queue = cbs[i].queue
    BY <1>2, <1>3, <2>1, UsesKept DEF CbsEvolve
  <2> QED BY <2>1, <2>2 DEF HazardsCover
<1>4. ASSUME NEW x \in DOMAIN buffers[b]
      PROVE  /\ buffers[b][x].cb \in DOMAIN cbs'
             /\ cbs'[buffers[b][x].cb].queue = buffers[b][x].queue
  BY <1>2 DEF HazardsCover, CbsEvolve
<1>5. CASE buffers'[b] = buffers[b] /\ ~UpdateTokens
  <2>1. ASSUME NEW i \in DOMAIN cbs', cbs'[i].tracked, Touches(i, b)'
        PROVE  HazardCovered(b, i)'
    BY <1>3, <1>5, <2>1 DEF HazardCovered
  <2> QED BY <1>4, <1>5, <2>1
<1>6. CASE UpdateTokens
  <2> DEFINE h == [queue |-> cbs[Current].queue, cb |-> Current]
  <2>1. /\ \A x \in DOMAIN buffers'[b] :
             buffers'[b][x] = h \/ (x \in DOMAIN buffers[b] /\ buffers'[b][x] = buffers[b][x])
        /\ \A x \in DOMAIN buffers[b] :
             /\ x \in DOMAIN buffers'[b]
             /\ \/ buffers'[b][x] = buffers[b][x]
                \/ buffers'[b][x] = h /\ buffers[b][x].queue = h.queue
        /\ Touches(Current, b) => \E x \in DOMAIN buffers'[b] : buffers'[b][x] = h
    BY <1>6, HazardsType
  <2>2. h.queue = cbs[Current].queue /\ h.cb = Current
    OBVIOUS
  <2> HIDE DEF h
  <2>3. Current \in DOMAIN cbs /\ Current \in Nat /\ \A i \in DOMAIN cbs : i <= Current /\ i \in Nat
    BY <1>6, CurrentInDomain DEF UpdateTokens, Idle, TypeInv
  <2>4. h.cb \in DOMAIN cbs' /\ cbs'[h.cb].queue = h.queue
    BY <1>2, <2>2, <2>3 DEF CbsEvolve
  <2>5. ASSUME NEW i \in DOMAIN cbs', cbs'[i].tracked, Touches(i, b)'
        PROVE  \E x \in DOMAIN buffers'[b] :
                 buffers'[b][x].queue = cbs'[i].queue /\ buffers'[b][x].cb >= i
    <3>1. /\ i \in DOMAIN cbs /\ cbs'[i].queue = cbs[i].queue /\ Touches(i, b)
          /\ i = Current \/ HazardCovered(b, i)
      BY <1>3, <2>5
    <3>2. h.cb >= i
      BY <2>2, <2>3, <3>1
    <3>3. CASE i = Current
      BY <2>1, <2>2, <3>1, <3>2, <3>3
    <3>4. CASE HazardCovered(b, i)
      <4>1. PICK x \in DOMAIN buffers[b] :
              buffers[b][x].queue = cbs[i].queue /\ buffers[b][x].cb >= i
        BY <3>4 DEF HazardCovered
      <4> QED BY <2>1, <3>1, <3>2, <4>1
    <3> QED BY <3>1, <3>3, <3>4
  <2>6. \A i \in DOMAIN cbs' : (cbs'[i].tracked /\ Touches(i, b)') => HazardCovered(b, i)'
    BY <2>5 DEF HazardCovered
  <2> QED BY <1>4, <2>1, <2>4, <2>6
<1>7. ASSUME ~UpdateTokens PROVE buffers' = buffers
  BY <1>7 DEF Next, vars, Build, Drop, CheckFenceToken, Begin, WaitDependencies,
              UpdateTokensThrows, Finish, GpuRun, ReleaseReady, WaitUntilReady, ClearRefused
<1> QED BY <1>5, <1>6, <1>7

(***************************************************************************)
(* The theorems.                                                           *)
(***************************************************************************)

LEMMA IInvInit ==
    ASSUME Init
    PROVE  IInv
<1>1. TypeInv
  BY TypeInvInit
<1>2. cbs = <<>> /\ DOMAIN cbs = {} /\ Idle
  BY DEF Init, Idle
<1>3. \A f \in Fence : fences[f].cb = 0 /\ fences[f].updated = 0
  BY DEF Init
<1>4. \A q \in Queue : registry[q].leases = <<>> /\ registry[q].head = 0
  BY DEF Init, EmptyRegistry
<1>5. \A b \in Buffer : DOMAIN buffers[b] = {}
  BY DEF Init
<1>6. FencesBound
  BY <1>3 DEF FencesBound, FenceBinding, Finished
<1>7. RegistriesInOrder
  <2>1. ASSUME NEW q \in Queue PROVE RegistryInOrder(q)
    <3>1. DOMAIN registry[q].leases = {} /\ Len(registry[q].leases) = 0 /\ registry[q].head = 0
      BY <1>4
    <3> QED BY <3>1 DEF RegistryInOrder, Active
  <2> QED BY <2>1 DEF RegistriesInOrder
<1>8. SessionInv /\ UsedBuilt /\ QueueInOrder /\ ConflictsOrdered
  BY <1>2 DEF SessionInv, UsedBuilt, QueueInOrder, ConflictsOrdered
<1>9. ReadsCovered /\ WritesCovered /\ WaitsCover
  BY <1>2 DEF ReadsCovered, WritesCovered, WaitsCover
<1>10. HazardsCover
  BY <1>2, <1>5 DEF HazardsCover
<1> QED BY <1>1, <1>6, <1>7, <1>8, <1>9, <1>10 DEF IInv

\* Every step keeps the invariant.
LEMMA IInvStep ==
    ASSUME IInv, [Next]_vars
    PROVE  IInv'
<1>1. TypeInv' /\ SessionInv' /\ UsedBuilt' /\ QueueInOrder' /\ ConflictsOrdered'
  BY TypeInvStep, SessionInvStep, UsedBuiltStep, QueueInOrderStep, ConflictsOrderedStep
<1>2. FencesBound' /\ RegistriesInOrder'
  BY FencesBoundStep, RegistriesInOrderStep
<1>3. ReadsCovered' /\ WritesCovered' /\ WaitsCover' /\ HazardsCover'
  BY ReadsCoveredStep, WritesCoveredStep, WaitsCoverStep, HazardsCoverStep
<1> QED BY <1>1, <1>2, <1>3 DEF IInv

\* The inductive invariant: command buffers, fences, registries and tokens
\* (MpsKernelSession, MpsFenceLifetimeManager) agree after every step.
THEOREM InvariantHolds == Spec => []IInv
<1>1. Init => IInv
  BY IInvInit
<1>2. IInv /\ [Next]_vars => IInv'
  BY IInvStep
<1> QED BY <1>1, <1>2, PTL DEF Spec

\* Two kernels that use one storage, at least one of them writing it, run in the
\* order they were submitted, on whatever queues (waitDependencies and
\* updateTokens of MpsKernelSession).
THEOREM KernelsOrdered == Spec => []ConflictsOrdered
<1>1. IInv => ConflictsOrdered
  BY DEF IInv
<1> QED BY <1>1, InvariantHolds, PTL

\* A fence nobody leases is unbound and its last update has happened, whatever
\* the tokens and releaseReady dropped (MpsFenceLifetimeManager).
THEOREM FreeFencesReusable == Spec => []FreeFencesIdle
<1>1. ASSUME IInv PROVE FreeFencesIdle
  <2> USE <1>1 DEF IInv
  <2>1. SUFFICES ASSUME NEW f \in FreeFence
                 PROVE  CanBind(f) /\ Finished(fences[f].updated)
    BY DEF FreeFencesIdle
  <2>2. /\ f \in Fence
        /\ \A q \in Queue : \A x \in DOMAIN registry[q].leases : registry[q].leases[x] # f
    BY FreeIsNotLeased
  <2>3. FenceBinding(f)
    BY <2>2 DEF FencesBound
  <2>4. fences[f].cb = 0
    BY <2>2, <2>3 DEF FenceBinding, Active
  <2> QED BY <2>3, <2>4 DEF CanBind, FenceBinding
<1>2. IInv => FreeFencesIdle
  BY <1>1
<1> QED BY <1>2, InvariantHolds, PTL

\* When the reuse token of a buffer reports completion, every tracked kernel
\* that used the buffer is done (addOrReplaceHazard keeps one for each queue).
THEOREM ReuseTokensCover == Spec => []ReuseTokenCovers
<1>1. ASSUME IInv PROVE ReuseTokenCovers
  <2> USE <1>1 DEF IInv
  <2>1. SUFFICES ASSUME NEW b \in Buffer, HazardsDone(buffers[b]), NEW i \in DOMAIN cbs,
                        cbs[i].tracked, Touches(i, b)
                 PROVE  Done(i)
    BY DEF ReuseTokenCovers, Touches, Finished, Done
  <2>2. PICK x \in DOMAIN buffers[b] :
          buffers[b][x].queue = cbs[i].queue /\ buffers[b][x].cb >= i
    BY <2>1 DEF HazardsCover, HazardCovered
  <2> DEFINE w == buffers[b][x].cb
  <2>3. w \in DOMAIN cbs /\ cbs[w].queue = cbs[i].queue
    BY <2>2 DEF HazardsCover
  <2>4. w \in Nat \ {0} /\ i \in Nat
    BY <2>3 DEF TypeInv
  <2>5. Done(w)
    BY <2>1, <2>4 DEF HazardsDone, Finished, Done
  <2>6. i < w \/ i = w
    BY <2>2, <2>4
  <2> HIDE DEF w
  <2> QED BY <2>3, <2>5, <2>6 DEF QueueInOrder
<1>2. IInv => ReuseTokenCovers
  BY <1>1
<1> QED BY <1>2, InvariantHolds, PTL

\* When every fence in the token of a live storage is ready, every tracked
\* kernel that used the storage is done: isCompleted(FenceToken) is right.
THEOREM FenceTokensCover == Spec => []FenceTokenCovers
<1>1. ASSUME IInv PROVE FenceTokenCovers
  <2> USE <1>1 DEF IInv
  <2>1. SUFFICES ASSUME NEW s \in Storage, storages[s].state = "live",
                        \A f \in (ToSet(storages[s].reads) \union {storages[s].write}) \ {None} :
                          IsReady(f),
                        NEW i \in DOMAIN cbs, cbs[i].tracked,
                        NEW u \in cbs[i].uses, u[1] = s
                 PROVE  Done(i)
    BY DEF FenceTokenCovers, Finished, Done
  <2>2. SUFFICES ASSUME ~Done(i) PROVE FALSE
    OBVIOUS
  <2>3. ASSUME NEW f \in Fence,
               f = storages[s].write \/ \E x \in DOMAIN storages[s].reads : f = storages[s].reads[x]
        PROVE  Finished(fences[f].updated)
    <3>1. f # None
      BY MpsKernelSyncConstants
    <3>2. IsReady(f)
      BY <2>1, <2>3, <3>1 DEF ToSet
    <3> QED BY <3>2, ReadyIsFinished DEF FencesBound
  <2>4. CASE Writes(u[3])
    <3>1. WritesTo(i, s)
      BY <2>1, <2>4 DEF WritesTo
    <3> DEFINE f == storages[s].write
    <3>2. f \in Fence /\ fences[f].updated >= i /\ WritesTo(fences[f].updated, s)
      BY <2>1, <2>2, <3>1 DEF WritesCovered, WriteCovered
    <3>3. Finished(fences[f].updated)
      BY <2>3, <3>2
    <3> HIDE DEF f
    <3> QED BY <2>1, <2>2, <3>1, <3>2, <3>3, FinishedCovers
  <2>5. CASE Reads(u[3])
    <3>1. ReadsFrom(i, s)
      BY <2>1, <2>5 DEF ReadsFrom
    <3>2. PICK x \in DOMAIN storages[s].reads :
            LET f == storages[s].reads[x]
            IN  f \in Fence /\ fences[f].queue = cbs[i].queue /\ fences[f].updated >= i
      BY <2>1, <2>2, <3>1 DEF ReadsCovered, ReadCovered
    <3> DEFINE f == storages[s].reads[x]
    <3>3. f \in Fence /\ fences[f].queue = cbs[i].queue /\ fences[f].updated >= i
      BY <3>2
    <3>4. Finished(fences[f].updated)
      BY <2>3, <3>3
    <3> HIDE DEF f
    <3> QED BY <2>1, <2>2, <3>3, <3>4, FinishedCovers
  <2> QED BY <2>1, <2>4, <2>5, UseAccess
<1>2. IInv => FenceTokenCovers
  BY <1>1
<1> QED BY <1>2, InvariantHolds, PTL

\* The state keeps its types, and a registry keeps fewer than half of its
\* leases released (compactIfNeeded).
THEOREM TypeCorrect == Spec => []TypeOK
<1>1. IInv => TypeOK
  <2> SUFFICES ASSUME IInv PROVE TypeOK
    OBVIOUS
  <2> USE DEF IInv
  <2>1. ASSUME NEW q \in Queue
        PROVE  /\ registry[q].leases \in Seq(Fence \union {None}) /\ registry[q].head \in Nat
               /\ registry[q].head # 0 => registry[q].head < Len(registry[q].leases) \div 2
    <3>1. registry[q] \in RegistryState /\ RegistryInOrder(q)
      BY DEF TypeInv, RegistriesInOrder
    <3> QED BY <3>1 DEF RegistryState, Lease, RegistryInOrder
  <2>2. ASSUME NEW s \in Storage
        PROVE  /\ storages[s].state \in {"unbuilt", "live", "dropped"}
               /\ storages[s].buffer \in Buffer \union {None}
               /\ storages[s].write \in Fence \union {None}
               /\ storages[s].reads \in Seq(Fence \union {None})
    <3>1. storages[s] \in Token
      BY DEF TypeInv
    <3> QED BY <3>1 DEF Token, Lease
  <2>3. \A b \in Buffer : buffers[b] \in Seq([queue : Queue, cb : 0 .. MaxKernels])
    BY DEF TypeInv, Hazard
  <2>4. /\ cbs \in Seq([queue : Queue, waits : SUBSET (1 .. MaxKernels),
                        uses : SUBSET (Storage \X Buffer \X Access),
                        tracked : BOOLEAN, status : {"encoding", "committed", "done"}])
        /\ fences \in [Fence -> [cb : 0 .. MaxKernels, queue : Queue \union {None},
                                 updated : 0 .. MaxKernels]]
    BY DEF TypeInv, CommandBuffer, FenceState
  <2> QED BY <2>1, <2>2, <2>3, <2>4 DEF TypeOK, TypeInv
<1> QED BY <1>1, InvariantHolds, PTL

==============================================================================
