----------------------------- MODULE MboxProofs -----------------------------
(***************************************************************************)
(* The safety properties of module Mbox, for any number of writers, any    *)
(* record length and both platforms.                                       *)
(*                                                                         *)
(* The argument: the flock makes append one critical section (Mutex), so   *)
(* the file changes only behind the offset its holder recorded (Region),   *)
(* and every published record lies in front of that offset (Published).    *)
(* Untouched says where a writer cannot have left a chunk yet, Durable     *)
(* which records the synced image already holds.  That the settled part is *)
(* a row of complete records (WholeRecords) needs one fact more: the       *)
(* record just written ends the file until its writer unlocks it.          *)
(***************************************************************************)
EXTENDS Mbox, TLAPS

\* The states in which a writer owns the flock, and those in which it has also
\* recorded original_len.
Locked == {"seek", "write", "syncfile", "syncdir", "truncate", "resync", "unlock"}
Appending == Locked \ {"seek"}

Mutex == \A w \in Writers : holder = w <=> pc[w] \in Locked

Finished == \A w \in Writers : pc[w] = "done" <=> result[w] # "pending"

\* Everything behind at[w] belongs to the lock holder w.
RegionOf(w) ==
    /\ pc[w] \in {"open", "lock", "seek"} => written[w] = 0
    /\ pc[w] \in Appending =>
        /\ at[w] <= Len(mailbox)
        /\ \A i \in 1..at[w] : mailbox[i][1] # w
    /\ pc[w] = "write" =>
        /\ written[w] < Chunks
        /\ Len(mailbox) = at[w] + written[w]
        /\ \A k \in 1..written[w] : mailbox[at[w] + k] = <<w, k>>
    /\ pc[w] \in {"syncfile", "syncdir", "unlock"} => RecordIn(mailbox, w)
    /\ pc[w] = "resync" => Len(mailbox) = at[w]

Region == \A w \in Writers : RegionOf(w)

PublishedOf(w) ==
    result[w] \in {"published", "late"} =>
        /\ RecordIn(mailbox, w)
        /\ \A h \in Writers : pc[h] \in Appending => at[w] + Chunks <= at[h]

Published == \A w \in Writers : PublishedOf(w)

UntouchedOf(w) ==
    /\ pc[w] \in {"open", "lock", "seek"} \/ result[w] = "failed" =>
        NoChunkIn(mailbox, w) /\ NoChunkIn(synced, w)
    /\ \/ pc[w] \in {"write", "syncfile"}
       \/ pc[w] \in {"truncate", "resync"} /\ durability[w] = "none"
       => NoChunkIn(synced, w)

Untouched == \A w \in Writers : UntouchedOf(w)

DurableOf(w) ==
    /\ pc[w] = "syncdir" => durability[w] # "none"
    /\ \/ pc[w] = "syncdir"
       \/ pc[w] = "unlock" /\ durability[w] # "none"
       \/ result[w] \in {"published", "late"} /\ durability[w] # "none"
       => RecordIn(synced, w)

Durable == \A w \in Writers : DurableOf(w)

Own(w) == RegionOf(w) /\ PublishedOf(w) /\ UntouchedOf(w) /\ DurableOf(w)

\* The inductive invariant.
IInv == TypeOK /\ Mutex /\ Finished /\ Region /\ Published /\ Untouched /\ Durable
-----------------------------------------------------------------------------
\* What a write at the end of the file does to it (FdWriter::write).
LEMMA PutAtEnd ==
    ASSUME NEW S, NEW file \in Seq(S), NEW chunk \in S
    PROVE  /\ PutAt(file, Len(file), chunk) \in Seq(S)
           /\ Len(PutAt(file, Len(file), chunk)) = Len(file) + 1
           /\ \A i \in 1..Len(file) : PutAt(file, Len(file), chunk)[i] = file[i]
           /\ PutAt(file, Len(file), chunk)[Len(file) + 1] = chunk
<1> DEFINE new == PutAt(file, Len(file), chunk)
<1>1. Len(file) \in Nat /\ DOMAIN file = 1..Len(file) /\ \A i \in 1..Len(file) : file[i] \in S
  OBVIOUS
<1>2. new = [i \in 1..(Len(file) + 1) |-> IF i = Len(file) + 1 THEN chunk ELSE file[i]]
  BY <1>1 DEF PutAt
<1>3. \A i \in 1..(Len(file) + 1) : new[i] \in S
  BY <1>1, <1>2
<1>4. new \in Seq(S) /\ Len(new) = Len(file) + 1
  BY <1>1, <1>2, <1>3
<1> QED
  BY <1>1, <1>2, <1>4

\* What ftruncate leaves of the file (rollback_with).
LEMMA PrefixOf ==
    ASSUME NEW S, NEW file \in Seq(S), NEW n \in 0..Len(file)
    PROVE  /\ SubSeq(file, 1, n) \in Seq(S)
           /\ Len(SubSeq(file, 1, n)) = n
           /\ \A i \in 1..n : SubSeq(file, 1, n)[i] = file[i]
  OBVIOUS

\* The length of a mailbox, the offset seek(End) returns, is a natural number.
LEMMA LenNat == \A file \in Seq(Chunk) : Len(file) \in Nat
  OBVIOUS

\* What a step of w may do to the others: it changes the file only behind its own
\* offset and while it holds the lock, it syncs only the file as it stands, and it
\* records an offset only at the end of the file.
Effect(w) ==
    /\ \A v \in Writers \ {w} : /\ pc'[v] = pc[v] /\ result'[v] = result[v]
                                /\ at'[v] = at[v] /\ written'[v] = written[v]
    /\ durability' = durability
    /\ \/ mailbox' = mailbox
       \/ /\ pc[w] \in Appending
          /\ at[w] <= Len(mailbox')
          /\ \A i \in 1..at[w] : mailbox'[i] = mailbox[i]
          /\ \A i \in 1..Len(mailbox') :
                mailbox'[i][1] = w \/ (i <= Len(mailbox) /\ mailbox'[i] = mailbox[i])
    /\ synced' = synced \/ (synced' = mailbox /\ mailbox' = mailbox /\ pc[w] \in Locked)
    /\ \/ at'[w] = at[w] /\ (pc'[w] \in Appending => pc[w] \in Appending)
       \/ at'[w] = Len(mailbox) /\ mailbox' = mailbox /\ pc[w] = "seek"

\* Such a step preserves what the invariant says of every other writer.
LEMMA OthersInv ==
    ASSUME IInv, TypeOK', NEW w \in Writers, Effect(w), NEW v \in Writers, v # w
    PROVE  Own(v)'
<1> USE LenNat, MboxAssumption DEF IInv, TypeOK
<1>e. /\ pc'[v] = pc[v] /\ result'[v] = result[v] /\ at'[v] = at[v] /\ written'[v] = written[v]
      /\ durability' = durability
      /\ mailbox' = mailbox \/ pc[w] \in Appending
      /\ synced' = synced \/ (synced' = mailbox /\ mailbox' = mailbox /\ pc[w] \in Locked)
  BY Zenon DEF Effect
<1>0. RegionOf(v) /\ PublishedOf(v) /\ UntouchedOf(v) /\ DurableOf(v)
  BY Zenon DEF Region, Published, Untouched, Durable
<1>1. pc[v] \in Locked => mailbox' = mailbox /\ synced' = synced
  BY <1>e, Zenon DEF Mutex, Locked, Appending
<1>2. RegionOf(v)'
  BY <1>e, <1>0, <1>1, Zenon DEF RegionOf, RecordIn, Locked, Appending
<1>3. PublishedOf(v)'
  <2> SUFFICES ASSUME result[v] \in {"published", "late"}
               PROVE  /\ RecordIn(mailbox, v)'
                      /\ \A h \in Writers : pc'[h] \in Appending => at'[v] + Chunks <= at'[h]
    BY <1>e, Zenon DEF PublishedOf
  <2>1. /\ RecordIn(mailbox, v)
        /\ \A h \in Writers : pc[h] \in Appending => at[v] + Chunks <= at[h]
    BY <1>0, Zenon DEF PublishedOf
  <2>2. RecordIn(mailbox, v)'
    <3>1. CASE mailbox' = mailbox
      BY <1>e, <3>1, <2>1, Zenon DEF RecordIn
    <3>2. CASE mailbox' # mailbox
      <4>1. /\ at[v] + Chunks <= at[w]
            /\ at[w] <= Len(mailbox')
            /\ \A i \in 1..at[w] : mailbox'[i] = mailbox[i]
        BY <3>2, <2>1, Zenon DEF Effect
      <4>2. at[v] \in Nat /\ at[w] \in Nat /\ Len(mailbox') \in Nat /\ Chunks \in Nat
        BY Zenon
      <4> HIDE DEF IInv, TypeOK
      <4>3. ASSUME NEW k \in 1..Chunks PROVE mailbox'[at[v] + k] = <<v, k>>
        <5>1. at[v] + k \in 1..at[w]
          BY <4>1, <4>2
        <5>2. mailbox[at[v] + k] = <<v, k>>
          BY <2>1, Zenon DEF RecordIn
        <5> QED
          BY <4>1, <5>1, <5>2, Zenon
      <4> QED
        BY <4>1, <4>2, <4>3, <1>e DEF RecordIn
    <3> QED
      BY <3>1, <3>2, Zenon
  <2>3. \A h \in Writers : pc'[h] \in Appending => at'[v] + Chunks <= at'[h]
    BY <2>1, <1>e, Zenon DEF Effect, RecordIn
  <2> QED
    BY <2>2, <2>3, Zenon
<1>4. UntouchedOf(v)'
  <2>1. NoChunkIn(mailbox, v) => NoChunkIn(mailbox, v)'
    <3>1. \A i \in 1..Len(mailbox') :
             mailbox'[i][1] = w \/ (i <= Len(mailbox) /\ mailbox'[i] = mailbox[i])
      <4>1. CASE mailbox' = mailbox
        BY <4>1
      <4>2. CASE mailbox' # mailbox
        BY <4>2, Zenon DEF Effect
      <4> QED
        BY <4>1, <4>2, Zenon
    <3>2. ASSUME NoChunkIn(mailbox, v), NEW i \in 1..Len(mailbox')
          PROVE  mailbox'[i][1] # v
      <4>1. CASE mailbox'[i][1] = w
        BY <4>1, Zenon
      <4>2. CASE i <= Len(mailbox) /\ mailbox'[i] = mailbox[i]
        <5>1. i \in 1..Len(mailbox)
          BY <4>2
        <5> QED
          BY <3>2, <4>2, <5>1, Zenon DEF NoChunkIn
      <4> QED
        BY <3>1, <4>1, <4>2, Zenon
    <3> QED
      BY <3>2, Zenon DEF NoChunkIn
  <2>2. CASE synced' = synced
    BY <1>e, <1>0, <2>1, <2>2, Zenon DEF UntouchedOf, NoChunkIn
  <2>3. CASE synced' # synced
    <3>1. pc[v] \notin Locked
      BY <2>3, <1>1, Zenon
    <3> QED
      BY <1>e, <1>0, <2>1, <2>3, <3>1, Zenon DEF UntouchedOf, NoChunkIn, Locked
  <2> QED
    BY <2>2, <2>3, Zenon
<1>5. DurableOf(v)'
  <2>1. CASE synced' = synced
    BY <1>e, <2>1, <1>0, Zenon DEF DurableOf, RecordIn
  <2>2. CASE synced' = mailbox /\ mailbox' = mailbox
    <3>1. pc[v] \in {"syncdir", "unlock"} \/ result[v] \in {"published", "late"} => RecordIn(mailbox, v)
      BY <1>0, Zenon DEF RegionOf, PublishedOf
    <3> QED
      BY <1>e, <3>1, <2>2, <1>0, Zenon DEF DurableOf, RecordIn
  <2> QED
    BY <1>e, <2>1, <2>2, Zenon
<1> QED
  BY <1>2, <1>3, <1>4, <1>5, Zenon DEF Own

\* An empty mailbox that nobody has locked satisfies the invariant.
LEMMA InitInv == Init => IInv
  BY MboxAssumption DEF Init, IInv, TypeOK, Mutex, Finished, Region, RegionOf, Published, PublishedOf,
     Untouched, UntouchedOf, Durable, DurableOf,     Locked, Appending, PC, Result, Durability, NoChunkIn, RecordIn

\* open and its failure touch neither the file nor the lock.
LEMMA OpenInv ==
    ASSUME IInv, NEW w \in Writers, Open(w)
    PROVE  TypeOK' /\ Mutex' /\ Finished' /\ Effect(w) /\ Own(w)'
<1> USE LenNat, MboxAssumption DEF IInv, TypeOK, Open, Step, Return, Fault
<1>0. RegionOf(w) /\ PublishedOf(w) /\ UntouchedOf(w) /\ DurableOf(w)
  BY Zenon DEF Region, Published, Untouched, Durable
<1>1. TypeOK'
  BY Zenon DEF PC, Result
<1>2. Mutex' /\ Finished'
  BY Zenon DEF Mutex, Finished, Locked
<1>3. Effect(w)
  BY <1>0, Zenon DEF Effect, RegionOf, Appending, Locked
<1>4. RegionOf(w)'
  BY <1>0, Zenon DEF RegionOf, UntouchedOf, Appending, Locked, RecordIn
<1>5. PublishedOf(w)'
  BY <1>0, <1>2, Zenon DEF PublishedOf, RegionOf, Finished, Mutex, Appending, Locked, RecordIn
<1>6. UntouchedOf(w)'
  BY <1>0, Zenon DEF UntouchedOf, RegionOf, DurableOf, Finished, Appending, Locked, NoChunkIn
<1>7. DurableOf(w)'
  BY <1>0, Zenon DEF DurableOf, RegionOf, Finished, RecordIn
<1> QED
  BY <1>1, <1>2, <1>3, <1>4, <1>5, <1>6, <1>7, Zenon DEF Own

\* Taking the flock is possible only when nobody holds it.
LEMMA LockInv ==
    ASSUME IInv, NEW w \in Writers, Lock(w)
    PROVE  TypeOK' /\ Mutex' /\ Finished' /\ Effect(w) /\ Own(w)'
<1> USE LenNat, MboxAssumption DEF IInv, TypeOK, Lock, Step, Return, Fault
<1>0. RegionOf(w) /\ PublishedOf(w) /\ UntouchedOf(w) /\ DurableOf(w)
  BY Zenon DEF Region, Published, Untouched, Durable
<1>1. TypeOK'
  BY Zenon DEF PC, Result
<1>2. Mutex' /\ Finished'
  BY Zenon DEF Mutex, Finished, Locked
<1>3. Effect(w)
  BY <1>0, Zenon DEF Effect, RegionOf, Appending, Locked
<1>4. RegionOf(w)'
  BY <1>0, Zenon DEF RegionOf, UntouchedOf, Appending, Locked, RecordIn
<1>5. PublishedOf(w)'
  BY <1>0, <1>2, Zenon DEF PublishedOf, RegionOf, Finished, Mutex, Appending, Locked, RecordIn
<1>6. UntouchedOf(w)'
  BY <1>0, Zenon DEF UntouchedOf, RegionOf, DurableOf, Finished, Appending, Locked, NoChunkIn
<1>7. DurableOf(w)'
  BY <1>0, Zenon DEF DurableOf, RegionOf, Finished, RecordIn
<1> QED
  BY <1>1, <1>2, <1>3, <1>4, <1>5, <1>6, <1>7, Zenon DEF Own

\* Nothing of w is in front of the end of the file it records.
LEMMA SeekEndInv ==
    ASSUME IInv, NEW w \in Writers, SeekEnd(w)
    PROVE  TypeOK' /\ Mutex' /\ Finished' /\ Effect(w) /\ Own(w)'
<1> USE LenNat, MboxAssumption DEF IInv, TypeOK, SeekEnd, Step, Return, Fault
<1>0. RegionOf(w) /\ PublishedOf(w) /\ UntouchedOf(w) /\ DurableOf(w)
  BY Zenon DEF Region, Published, Untouched, Durable
<1>1. TypeOK'
  BY DEF PC, Result
<1>2. Mutex' /\ Finished'
  BY DEF Mutex, Finished, Locked
<1>3. Effect(w)
  BY <1>0, Zenon DEF Effect, RegionOf, Appending, Locked
<1>4. RegionOf(w)'
  BY <1>0 DEF RegionOf, UntouchedOf, Appending, Locked, RecordIn, NoChunkIn
<1>5. PublishedOf(w)'
  BY <1>0, <1>2, Zenon DEF PublishedOf, RegionOf, Finished, Mutex, Appending, Locked, RecordIn
<1>6. UntouchedOf(w)'
  BY <1>0, Zenon DEF UntouchedOf, RegionOf, DurableOf, Finished, Appending, Locked, NoChunkIn
<1>7. DurableOf(w)'
  BY <1>0, Zenon DEF DurableOf, RegionOf, Finished, RecordIn
<1> QED
  BY <1>1, <1>2, <1>3, <1>4, <1>5, <1>6, <1>7, Zenon DEF Own

\* write_record extends the file by exactly the next chunk of w.
LEMMA WriteRecordInv ==
    ASSUME IInv, NEW w \in Writers, WriteRecord(w)
    PROVE  TypeOK' /\ Mutex' /\ Finished' /\ Effect(w) /\ Own(w)'
<1> USE LenNat, MboxAssumption DEF IInv, TypeOK
<1>0. RegionOf(w) /\ PublishedOf(w) /\ UntouchedOf(w) /\ DurableOf(w)
  BY Zenon DEF Region, Published, Untouched, Durable
<1>1. pc[w] = "write"
  BY Zenon DEF WriteRecord, Step
<1>2. CASE mailbox' = PutAt(mailbox, at[w] + written[w], <<w, written[w] + 1>>) /\ written[w] < Chunks
           /\ Step(w, "write", IF written[w] + 1 = Chunks THEN AfterWrite(w) ELSE "write")
           /\ written' = [written EXCEPT ![w] = @ + 1]
           /\ UNCHANGED <<synced, holder, at, durability, result, faulty>>
  <2>0. /\ at[w] \in Nat /\ written[w] \in Nat /\ Len(mailbox) \in Nat /\ Chunks \in Nat
        /\ written' = [written EXCEPT ![w] = @ + 1]
        /\ at' = at /\ written'[w] = written[w] + 1 /\ result' = result /\ synced' = synced
        /\ holder' = holder /\ durability' = durability
        /\ \A v \in Writers \ {w} : written'[v] = written[v]
    BY <1>2
  <2>1. /\ Len(mailbox) = at[w] + written[w]
        /\ \A i \in 1..at[w] : mailbox[i][1] # w
        /\ \A k \in 1..written[w] : mailbox[at[w] + k] = <<w, k>>
    BY <1>0, <1>1, Zenon DEF RegionOf, Appending, Locked
  <2>2. <<w, written[w] + 1>> \in Chunk
    BY <1>2, <2>0 DEF Chunk
  <2>3. /\ mailbox' \in Seq(Chunk)
        /\ Len(mailbox') = Len(mailbox) + 1
        /\ \A i \in 1..Len(mailbox) : mailbox'[i] = mailbox[i]
        /\ mailbox'[Len(mailbox) + 1] = <<w, written[w] + 1>>
    <3>1. mailbox' = PutAt(mailbox, Len(mailbox), <<w, written[w] + 1>>)
      BY <1>2, <2>1, Zenon
    <3>2. mailbox \in Seq(Chunk)
      BY Zenon
    <3> DEFINE c == <<w, written[w] + 1>>
    <3>3. /\ PutAt(mailbox, Len(mailbox), c) \in Seq(Chunk)
          /\ Len(PutAt(mailbox, Len(mailbox), c)) = Len(mailbox) + 1
          /\ \A i \in 1..Len(mailbox) : PutAt(mailbox, Len(mailbox), c)[i] = mailbox[i]
          /\ PutAt(mailbox, Len(mailbox), c)[Len(mailbox) + 1] = c
      <4> HIDE DEF c, IInv, TypeOK
      <4>1. c \in Chunk
        BY <2>2, Zenon DEF c
      <4> QED
        BY <4>1, <3>2, PutAtEnd, Zenon
    <3> QED
      BY <3>1, <3>3, Zenon
  <2>4. /\ pc' = [pc EXCEPT ![w] = pc'[w]]
        /\ pc'[w] \in {"write", "syncfile", "unlock"}
        /\ pc'[w] = "write" <=> written[w] + 1 # Chunks
        /\ pc'[w] = "syncfile" => durability[w] # "none"
        /\ pc'[w] = "unlock" => durability[w] = "none"
    BY <1>2, Zenon DEF Step, AfterWrite
  <2>5. TypeOK'
    <3>1. written[w] + 1 \in 0..Chunks
      BY <1>2, <2>0
    <3>2. written \in [Writers -> 0..Chunks] /\ pc \in [Writers -> PC]
      BY Zenon
    <3>3. written' \in [Writers -> 0..Chunks]
      BY <2>0, <3>1, <3>2, Zenon DEF TypeOK
    <3>4. pc' \in [Writers -> PC]
      BY <2>4, <3>2, Zenon DEF PC
    <3> QED
      BY <1>2, <2>3, <3>3, <3>4, Zenon
  <2>6. Mutex' /\ Finished'
    BY <1>1, <2>0, <2>4, Zenon DEF Mutex, Finished, Locked
  <2>p. \A v \in Writers \ {w} : pc'[v] = pc[v]
    BY <2>4, Zenon
  <2>q. pc'[w] = "write" => written'[w] < Chunks
    BY <1>2, <2>0, <2>4
  <2>r. pc'[w] # "write" => written'[w] = Chunks
    BY <1>2, <2>0, <2>4, Zenon
  <2> HIDE DEF IInv, TypeOK
  <2>7. Effect(w)
    <3>1. at[w] <= Len(mailbox') /\ pc[w] \in Appending
      BY <1>1, <2>0, <2>1, <2>3 DEF Appending, Locked
    <3>2. \A i \in 1..at[w] : mailbox'[i] = mailbox[i]
      BY <2>0, <2>1, <2>3
    <3>3. \A i \in 1..Len(mailbox') :
             mailbox'[i][1] = w \/ (i <= Len(mailbox) /\ mailbox'[i] = mailbox[i])
      <4>1. ASSUME NEW i \in 1..Len(mailbox')
            PROVE  mailbox'[i][1] = w \/ (i <= Len(mailbox) /\ mailbox'[i] = mailbox[i])
        <5>1. CASE i = Len(mailbox) + 1
          BY <2>3, <5>1
        <5>2. CASE i # Len(mailbox) + 1
          <6>1. i \in 1..Len(mailbox)
            BY <2>0, <2>3, <5>2
          <6> QED
            BY <2>3, <6>1
        <5> QED
          BY <5>1, <5>2, Zenon
      <4> QED
        BY <4>1, Zenon
    <3>4. \A v \in Writers \ {w} : pc'[v] = pc[v] /\ result'[v] = result[v]
                                   /\ at'[v] = at[v] /\ written'[v] = written[v]
      BY <2>0, <2>p, Zenon
    <3> QED
      BY <2>0, <3>1, <3>2, <3>3, <3>4, Zenon DEF Effect
  <2>8. /\ at'[w] <= Len(mailbox')
        /\ \A i \in 1..at'[w] : mailbox'[i][1] # w
        /\ Len(mailbox') = at'[w] + written'[w]
        /\ \A k \in 1..written'[w] : mailbox'[at'[w] + k] = <<w, k>>
    <3>1. ASSUME NEW k \in 1..written'[w] PROVE mailbox'[at[w] + k] = <<w, k>>
      <4>1. CASE k = written[w] + 1
        <5>1. at[w] + k = Len(mailbox) + 1
          BY <2>0, <2>1, <4>1
        <5> QED
          BY <2>3, <4>1, <5>1, Zenon
      <4>2. CASE k \in 1..written[w]
        <5>1. at[w] + k \in 1..Len(mailbox)
          BY <2>0, <2>1, <4>2
        <5> QED
          BY <2>1, <2>3, <4>2, <5>1, Zenon
      <4> QED
        BY <2>0, <4>1, <4>2
    <3>2. ASSUME NEW i \in 1..at[w] PROVE mailbox'[i][1] # w
      <4>1. i \in 1..Len(mailbox)
        BY <2>0, <2>1
      <4> QED
        BY <2>1, <2>3, <4>1, Zenon
    <3> QED
      BY <2>0, <2>1, <2>3, <3>1, <3>2
  <2>9. RegionOf(w)'
    <3>1. pc'[w] \in {"syncfile", "syncdir", "unlock"} => RecordIn(mailbox, w)'
      <4> SUFFICES ASSUME pc'[w] \in {"syncfile", "syncdir", "unlock"}
                   PROVE  at'[w] + Chunks <= Len(mailbox') /\ \A k \in 1..Chunks : mailbox'[at'[w] + k] = <<w, k>>
        BY Zenon DEF RecordIn
      <4>1. written'[w] = Chunks
        BY <2>r, Zenon
      <4> QED
        BY <4>1, <2>0, <2>8
    <3> QED
      BY <2>4, <2>q, <2>8, <3>1, Zenon DEF RegionOf
  <2>10. PublishedOf(w)' /\ UntouchedOf(w)' /\ DurableOf(w)'
    BY <1>0, <1>1, <2>0, <2>4, Zenon DEF PublishedOf, UntouchedOf, DurableOf, Finished, NoChunkIn, IInv
  <2> QED
    BY <2>5, <2>6, <2>7, <2>9, <2>10, Zenon DEF Own
<1>3. CASE Step(w, "write", "truncate") /\ Fault(w)
           /\ UNCHANGED <<mailbox, synced, holder, at, written, durability, result>>
  <2> USE <1>3 DEF Step, Fault
  <2>1. TypeOK' /\ Mutex' /\ Finished'
    BY Zenon DEF PC, Mutex, Finished, Locked
  <2>2. Effect(w)
    BY Zenon DEF Effect, Appending, Locked
  <2>3. Own(w)'
    BY <1>0, Zenon DEF Own, RegionOf, PublishedOf, UntouchedOf, DurableOf, Finished, Appending, Locked,
       NoChunkIn
  <2> QED
    BY <2>1, <2>2, <2>3, Zenon
<1> QED
  BY <1>2, <1>3, Zenon DEF WriteRecord

\* The sync makes durable what the file holds, the record of w included.
LEMMA SyncFileInv ==
    ASSUME IInv, NEW w \in Writers, SyncFile(w)
    PROVE  TypeOK' /\ Mutex' /\ Finished' /\ Effect(w) /\ Own(w)'
<1> USE LenNat, MboxAssumption DEF IInv, TypeOK, SyncFile, Step, Fault
<1>0. RegionOf(w) /\ PublishedOf(w) /\ UntouchedOf(w) /\ DurableOf(w)
  BY Zenon DEF Region, Published, Untouched, Durable
<1>1. TypeOK'
  BY Zenon DEF PC, Result
<1>2. Mutex' /\ Finished'
  BY Zenon DEF Mutex, Finished, Locked
<1>3. Effect(w)
  BY <1>0, Zenon DEF Effect, RegionOf, Appending, Locked
<1>4. RegionOf(w)'
  BY <1>0, Zenon DEF RegionOf, UntouchedOf, Appending, Locked, RecordIn
<1>5. PublishedOf(w)'
  BY <1>0, <1>2, Zenon DEF PublishedOf, RegionOf, Finished, Mutex, Appending, Locked, RecordIn
<1>6. UntouchedOf(w)'
  BY <1>0, Zenon DEF UntouchedOf, RegionOf, DurableOf, Finished, Appending, Locked, NoChunkIn
<1>7. DurableOf(w)'
  BY <1>0, Zenon DEF DurableOf, RegionOf, Finished, RecordIn
<1> QED
  BY <1>1, <1>2, <1>3, <1>4, <1>5, <1>6, <1>7, Zenon DEF Own

\* The directory sync, or its failure, changes no file.
LEMMA SyncParentInv ==
    ASSUME IInv, NEW w \in Writers, SyncParent(w)
    PROVE  TypeOK' /\ Mutex' /\ Finished' /\ Effect(w) /\ Own(w)'
<1> USE LenNat, MboxAssumption DEF IInv, TypeOK, SyncParent, Step
<1>0. RegionOf(w) /\ PublishedOf(w) /\ UntouchedOf(w) /\ DurableOf(w)
  BY Zenon DEF Region, Published, Untouched, Durable
<1>1. TypeOK'
  BY Zenon DEF PC, Result
<1>2. Mutex' /\ Finished'
  BY Zenon DEF Mutex, Finished, Locked
<1>3. Effect(w)
  BY <1>0, Zenon DEF Effect, RegionOf, Appending, Locked
<1>4. RegionOf(w)'
  BY <1>0, Zenon DEF RegionOf, UntouchedOf, Appending, Locked, RecordIn
<1>5. PublishedOf(w)'
  BY <1>0, <1>2, Zenon DEF PublishedOf, RegionOf, Finished, Mutex, Appending, Locked, RecordIn
<1>6. UntouchedOf(w)'
  BY <1>0, Zenon DEF UntouchedOf, RegionOf, DurableOf, Finished, Appending, Locked, NoChunkIn
<1>7. DurableOf(w)'
  BY <1>0, Zenon DEF DurableOf, RegionOf, Finished, RecordIn
<1> QED
  BY <1>1, <1>2, <1>3, <1>4, <1>5, <1>6, <1>7, Zenon DEF Own

\* Rolling back removes everything behind the recorded offset.
LEMMA TruncateInv ==
    ASSUME IInv, NEW w \in Writers, Truncate(w)
    PROVE  TypeOK' /\ Mutex' /\ Finished' /\ Effect(w) /\ Own(w)'
<1> USE LenNat, MboxAssumption DEF IInv, TypeOK, Truncate, Step, Return, Fault
<1>0. RegionOf(w) /\ PublishedOf(w) /\ UntouchedOf(w) /\ DurableOf(w)
  BY Zenon DEF Region, Published, Untouched, Durable
<1>1. \/ mailbox' = mailbox
      \/ /\ mailbox' \in Seq(Chunk)
         /\ Len(mailbox') = at[w]
         /\ at[w] <= Len(mailbox)
         /\ \A i \in 1..at[w] : mailbox'[i] = mailbox[i]
         /\ pc' = [pc EXCEPT ![w] = "resync"]
  <2>1. at[w] \in 0..Len(mailbox)
    BY <1>0 DEF RegionOf, Appending, Locked
  <2>2. mailbox \in Seq(Chunk)
    BY Zenon
  <2>3. /\ SubSeq(mailbox, 1, at[w]) \in Seq(Chunk)
        /\ Len(SubSeq(mailbox, 1, at[w])) = at[w]
        /\ \A i \in 1..at[w] : SubSeq(mailbox, 1, at[w])[i] = mailbox[i]
    BY <2>1, <2>2, PrefixOf
  <2>4. CASE Step(w, "truncate", "resync") /\ mailbox' = SubSeq(mailbox, 1, at[w])
    BY <2>1, <2>3, <2>4
  <2>5. CASE UNCHANGED mailbox
    BY <2>5, Zenon
  <2> QED
    BY <2>4, <2>5, Zenon
<1>2. TypeOK'
  BY <1>1, Zenon DEF PC, Result
<1>3. Mutex' /\ Finished'
  BY Zenon DEF Mutex, Finished, Locked
<1>4. Effect(w)
  BY <1>1 DEF Effect, Appending, Locked
<1>5. RegionOf(w)'
  BY <1>0, <1>1 DEF RegionOf, Appending, Locked
<1>6. PublishedOf(w)' /\ UntouchedOf(w)' /\ DurableOf(w)'
  BY <1>0, Zenon DEF PublishedOf, UntouchedOf, DurableOf, Finished, NoChunkIn
<1> QED
  BY <1>2, <1>3, <1>4, <1>5, <1>6, Zenon DEF Own

\* After the rollback nothing of w is left to be synced.
LEMMA ResyncAfterRollbackInv ==
    ASSUME IInv, NEW w \in Writers, ResyncAfterRollback(w)
    PROVE  TypeOK' /\ Mutex' /\ Finished' /\ Effect(w) /\ Own(w)'
<1> USE LenNat, MboxAssumption DEF IInv, TypeOK, ResyncAfterRollback, Step, Return, Fault
<1>0. RegionOf(w) /\ PublishedOf(w) /\ UntouchedOf(w) /\ DurableOf(w)
  BY Zenon DEF Region, Published, Untouched, Durable
<1>1. TypeOK'
  BY Zenon DEF PC, Result
<1>2. Mutex' /\ Finished'
  BY Zenon DEF Mutex, Finished, Locked
<1>3. Effect(w)
  BY <1>0, Zenon DEF Effect, RegionOf, Appending, Locked
<1>4. RegionOf(w)'
  BY <1>0, Zenon DEF RegionOf, UntouchedOf, Appending, Locked, RecordIn
<1>5. PublishedOf(w)'
  BY <1>0, <1>2, Zenon DEF PublishedOf, RegionOf, Finished, Mutex, Appending, Locked, RecordIn
<1>6. UntouchedOf(w)'
  BY <1>0, Zenon DEF UntouchedOf, RegionOf, DurableOf, Finished, Appending, Locked, NoChunkIn
<1>7. DurableOf(w)'
  BY <1>0, Zenon DEF DurableOf, RegionOf, Finished, RecordIn
<1> QED
  BY <1>1, <1>2, <1>3, <1>4, <1>5, <1>6, <1>7, Zenon DEF Own

\* Only a whole record is reported as published.
LEMMA UnlockInv ==
    ASSUME IInv, NEW w \in Writers, Unlock(w)
    PROVE  TypeOK' /\ Mutex' /\ Finished' /\ Effect(w) /\ Own(w)'
<1> USE LenNat, MboxAssumption DEF IInv, TypeOK, Unlock, Step, Return, Fault
<1>0. RegionOf(w) /\ PublishedOf(w) /\ UntouchedOf(w) /\ DurableOf(w)
  BY Zenon DEF Region, Published, Untouched, Durable
<1>1. TypeOK'
  BY Zenon DEF PC, Result
<1>2. Mutex' /\ Finished'
  BY Zenon DEF Mutex, Finished, Locked
<1>3. Effect(w)
  BY <1>0, Zenon DEF Effect, RegionOf, Appending, Locked
<1>4. RegionOf(w)'
  BY <1>0, Zenon DEF RegionOf, UntouchedOf, Appending, Locked, RecordIn
<1>5. PublishedOf(w)'
  BY <1>0, <1>2, Zenon DEF PublishedOf, RegionOf, Finished, Mutex, Appending, Locked, RecordIn
<1>6. UntouchedOf(w)'
  BY <1>0, Zenon DEF UntouchedOf, RegionOf, DurableOf, Finished, Appending, Locked, NoChunkIn
<1>7. DurableOf(w)'
  BY <1>0, Zenon DEF DurableOf, RegionOf, Finished, RecordIn
<1> QED
  BY <1>1, <1>2, <1>3, <1>4, <1>5, <1>6, <1>7, Zenon DEF Own

\* A killed writer leaves the file as it is and loses the lock.
LEMMA KillInv ==
    ASSUME IInv, NEW w \in Writers, Kill(w)
    PROVE  TypeOK' /\ Mutex' /\ Finished' /\ Effect(w) /\ Own(w)'
<1> USE LenNat, MboxAssumption DEF IInv, TypeOK, Kill, Step, Return, Fault
<1>0. RegionOf(w) /\ PublishedOf(w) /\ UntouchedOf(w) /\ DurableOf(w)
  BY Zenon DEF Region, Published, Untouched, Durable
<1>1. TypeOK'
  BY Zenon DEF PC, Result
<1>2. Mutex' /\ Finished'
  BY Zenon DEF Mutex, Finished, Locked
<1>3. Effect(w)
  BY <1>0, Zenon DEF Effect, RegionOf, Appending, Locked
<1>4. RegionOf(w)'
  BY <1>0, Zenon DEF RegionOf, UntouchedOf, Appending, Locked, RecordIn
<1>5. PublishedOf(w)'
  BY <1>0, <1>2, Zenon DEF PublishedOf, RegionOf, Finished, Mutex, Appending, Locked, RecordIn
<1>6. UntouchedOf(w)'
  BY <1>0, Zenon DEF UntouchedOf, RegionOf, DurableOf, Finished, Appending, Locked, NoChunkIn
<1>7. DurableOf(w)'
  BY <1>0, Zenon DEF DurableOf, RegionOf, Finished, RecordIn
<1> QED
  BY <1>1, <1>2, <1>3, <1>4, <1>5, <1>6, <1>7, Zenon DEF Own

\* Every step preserves the invariant.
LEMMA StepInv ==
    ASSUME IInv, NEW w \in Writers, Deliver(w)
    PROVE  IInv' /\ Effect(w)
<1>1. TypeOK' /\ Mutex' /\ Finished' /\ Effect(w) /\ Own(w)'
  BY OpenInv, LockInv, SeekEndInv, WriteRecordInv, SyncFileInv, SyncParentInv, TruncateInv,
     ResyncAfterRollbackInv, UnlockInv, KillInv, Zenon DEF Deliver
<1>2. \A v \in Writers : Own(v)'
  BY <1>1, OthersInv, Zenon
<1> QED
  BY <1>1, <1>2, Zenon DEF IInv, Own, Region, Published, Untouched, Durable

\* Any step of the system, of whichever writer, preserves the invariant.
LEMMA NextInv == IInv /\ [Next]_vars => IInv'
<1> SUFFICES ASSUME IInv, [Next]_vars PROVE IInv'
  BY Zenon
<1>1. CASE UNCHANGED vars
  <2> USE <1>1 DEF vars, IInv
  <2>1. TypeOK' /\ Mutex' /\ Finished'
    BY Zenon DEF TypeOK, Mutex, Finished
  <2>2. Region' /\ Published'
    BY Zenon DEF Region, RegionOf, Published, PublishedOf, RecordIn
  <2>3. Untouched' /\ Durable'
    BY Zenon DEF Untouched, UntouchedOf, Durable, DurableOf, RecordIn, NoChunkIn
  <2> QED
    BY <2>1, <2>2, <2>3, Zenon
<1> QED
  BY <1>1, StepInv, Zenon DEF Next, Terminated

\* The invariant holds in every reachable state, for any number of writers.
THEOREM Invariance == Spec => []IInv
  BY InitInv, NextInv, PTL DEF Spec

-----------------------------------------------------------------------------
\* Every variable keeps its type; the offset and the chunk counter in particular.
THEOREM TypeCorrect == Spec => []TypeOK
<1>1. IInv => TypeOK
  BY Zenon DEF IInv
<1> QED
  BY <1>1, Invariance, PTL

\* A record reported as published stays whole and in its place, whatever the
\* other writers do to the file.
THEOREM PublishedStaysIntact == Spec => []PublishedRecordsIntact
<1>1. IInv => PublishedRecordsIntact
  BY Zenon DEF IInv, Published, PublishedOf, PublishedRecordsIntact
<1> QED
  BY <1>1, Invariance, PTL

\* A delivery reported as failed before publication left nothing behind, neither
\* in the file nor in its durable image.
THEOREM FailedIsClean == Spec => []FailedLeavesNothing
<1>1. IInv => FailedLeavesNothing
  BY Zenon DEF IInv, Untouched, UntouchedOf, FailedLeavesNothing
<1> QED
  BY <1>1, Invariance, PTL

\* With DURABILITY=file or full a reported record is in the durable image.
THEOREM ReportedSurvives == Spec => []ReportedIsDurable
<1>1. IInv => ReportedIsDurable
  BY Zenon DEF IInv, Durable, DurableOf, ReportedIsDurable
<1> QED
  BY <1>1, Invariance, PTL

\* The part of the file in front of the current record is never changed and
\* never shrinks.
LEMMA StepSettles ==
    ASSUME IInv, NEW w \in Writers, Deliver(w)
    PROVE  /\ SettledLength <= SettledLength'
           /\ \A i \in 1..SettledLength : mailbox'[i] = mailbox[i]
<1> USE LenNat, MboxAssumption
<1>1. IInv' /\ Effect(w)
  BY StepInv, Zenon
<1>2. /\ mailbox \in Seq(Chunk) /\ mailbox' \in Seq(Chunk)
      /\ Len(mailbox) \in Nat /\ Len(mailbox') \in Nat
      /\ \A v \in Writers : at[v] \in Nat /\ at'[v] \in Nat
      /\ holder \in Writers \cup {NoWriter} /\ holder' \in Writers \cup {NoWriter}
  BY <1>1, Zenon DEF IInv, TypeOK
<1>3. /\ \A v \in Writers : holder = v <=> pc[v] \in Locked
      /\ \A v \in Writers : holder' = v <=> pc'[v] \in Locked
      /\ \A v \in Writers : pc[v] \in Appending => at[v] <= Len(mailbox)
  BY <1>1, Zenon DEF IInv, Mutex, Region, RegionOf
<1>4. /\ \A v \in Writers \ {w} : pc'[v] = pc[v] /\ at'[v] = at[v]
      /\ mailbox' = mailbox \/ (/\ pc[w] \in Appending
                                /\ at[w] <= Len(mailbox')
                                /\ \A i \in 1..at[w] : mailbox'[i] = mailbox[i])
      /\ \/ at'[w] = at[w] /\ (pc'[w] \in Appending => pc[w] \in Appending)
         \/ at'[w] = Len(mailbox) /\ mailbox' = mailbox /\ pc[w] = "seek"
  BY <1>1, Zenon DEF Effect
<1>5. /\ holder \in Writers /\ pc[holder] # "seek" => SettledLength = at[holder] /\ pc[holder] \in Appending
      /\ ~(holder \in Writers /\ pc[holder] # "seek") => SettledLength = Len(mailbox)
  BY <1>2, <1>3, Zenon DEF SettledLength, Locked, Appending
<1>6. /\ holder' \in Writers /\ pc'[holder'] # "seek" => SettledLength' = at'[holder'] /\ pc'[holder'] \in Appending
      /\ ~(holder' \in Writers /\ pc'[holder'] # "seek") => SettledLength' = Len(mailbox')
  BY <1>2, <1>3, Zenon DEF SettledLength, Locked, Appending
<1>7. CASE holder \in Writers /\ pc[holder] # "seek" /\ holder = w
  BY <1>2, <1>3, <1>4, <1>5, <1>6, <1>7 DEF Locked, Appending
<1>8. CASE holder \in Writers /\ pc[holder] # "seek" /\ holder # w
  <2>1. pc[w] \notin Appending /\ mailbox' = mailbox
    BY <1>3, <1>4, <1>8, Zenon DEF Locked, Appending
  <2>2. holder' = holder /\ at'[holder] = at[holder] /\ pc'[holder] = pc[holder]
    BY <1>3, <1>4, <1>8, Zenon
  <2> QED
    BY <1>2, <1>5, <1>6, <1>8, <2>1, <2>2
<1>9. CASE ~(holder \in Writers /\ pc[holder] # "seek")
  <2>1. \A v \in Writers : pc[v] \notin Appending
    BY <1>3, <1>9, Zenon DEF Locked, Appending
  <2>2. mailbox' = mailbox
    BY <1>4, <2>1, Zenon
  <2>3. ASSUME holder' \in Writers, pc'[holder'] \in Appending PROVE at'[holder'] = Len(mailbox)
    BY <1>4, <2>1, <2>3, Zenon
  <2> QED
    BY <1>2, <1>5, <1>6, <1>9, <2>2, <2>3
<1> QED
  BY <1>7, <1>8, <1>9, Zenon

\* The settled part of the mailbox only grows, in every behaviour.
THEOREM SettledPartGrows == Spec => SettledOnlyGrows
<1> DEFINE Grows == /\ SettledLength <= SettledLength'
                    /\ \A i \in 1..SettledLength : mailbox'[i] = mailbox[i]
<1>1. IInv /\ [Next]_vars => [Grows]_vars
  BY StepSettles, Zenon DEF Next, Terminated
<1>2. Spec => [][Grows]_vars
  BY <1>1, Invariance, PTL DEF Spec
<1> QED
  BY <1>2, Zenon DEF SettledOnlyGrows

-----------------------------------------------------------------------------
\* No writer was killed and no rollback failed.
Clean == \A w \in Writers : result[w] \notin {"killed", "norollback"}

\* The first n chunks of the mailbox are complete records, one after another.
WholeUpTo(file, n) ==
    \A i \in 1..n :
        /\ file[i][2] > 1 => i > 1 /\ file[i - 1] = <<file[i][1], file[i][2] - 1>>
        /\ file[i][2] = 1 => i = 1 \/ file[i - 1][2] = Chunks
        /\ i = n => file[i][2] = Chunks

\* A complete record is the last thing in the file until its writer unlocks it.
RecordEndsFile ==
    \A w \in Writers : pc[w] \in {"syncfile", "syncdir", "unlock"} =>
        Len(mailbox) = at[w] + Chunks

WholeInv == IInv /\ RecordEndsFile /\ WholeRecords

\* WholeRecords, with its end as a parameter.
LEMMA WholeMeans == WholeRecords <=> (Clean => WholeUpTo(mailbox, SettledLength))
BY Zenon DEF WholeRecords, WholeUpTo, Clean

\* A record that follows complete records extends them (write_record).
LEMMA RecordExtends ==
    ASSUME NEW file \in Seq(Chunk), NEW n \in Nat, NEW w \in Writers, WholeUpTo(file, n),
           n + Chunks <= Len(file),
           \A k \in 1..Chunks : file[n + k] = <<w, k>>
    PROVE  WholeUpTo(file, n + Chunks)
<1> USE MboxAssumption
<1> SUFFICES ASSUME NEW i \in 1..(n + Chunks)
             PROVE  /\ file[i][2] > 1 => i > 1 /\ file[i - 1] = <<file[i][1], file[i][2] - 1>>
                    /\ file[i][2] = 1 => i = 1 \/ file[i - 1][2] = Chunks
                    /\ i = n + Chunks => file[i][2] = Chunks
  BY Zenon DEF WholeUpTo
<1>1. CASE i <= n
  <2>1. i \in 1..n /\ i # n + Chunks
    BY <1>1
  <2> QED
    BY <2>1, Zenon DEF WholeUpTo
<1>2. CASE i > n
  <2>1. PICK k \in 1..Chunks : i = n + k
    <3>1. i - n \in 1..Chunks /\ i = n + (i - n)
      BY <1>2
    <3> QED
      BY <3>1, Zenon
  <2>2. file[i] = <<w, k>>
    BY <2>1, Zenon
  <2>3. CASE k > 1
    <3>1. k - 1 \in 1..Chunks /\ i - 1 = n + (k - 1)
      BY <2>1, <2>3
    <3>2. file[i - 1] = <<w, k - 1>>
      BY <3>1, Zenon
    <3> QED
      BY <2>1, <2>2, <2>3, <3>2
  <2>4. CASE k = 1
    <3>1. i - 1 = n /\ (i = 1 \/ n \in 1..n)
      BY <2>1, <2>4
    <3>2. i = 1 \/ file[i - 1][2] = Chunks
      BY <3>1, Zenon DEF WholeUpTo
    <3>3. i = n + Chunks => Chunks = 1
      BY <2>1, <2>4
    <3> QED
      BY <2>2, <2>4, <3>2, <3>3
  <2> QED
    BY <2>3, <2>4
<1> QED
  BY <1>1, <1>2

\* A file that begins with the same chunks has the same complete records.
LEMMA WholeSame ==
    ASSUME NEW n \in Nat, NEW file, NEW new, WholeUpTo(file, n),
           \A i \in 1..n : new[i] = file[i]
    PROVE  WholeUpTo(new, n)
<1> SUFFICES ASSUME NEW i \in 1..n
             PROVE  /\ new[i][2] > 1 => i > 1 /\ new[i - 1] = <<new[i][1], new[i][2] - 1>>
                    /\ new[i][2] = 1 => i = 1 \/ new[i - 1][2] = Chunks
                    /\ i = n => new[i][2] = Chunks
  BY Zenon DEF WholeUpTo
<1>1. new[i] = file[i] /\ (i = 1 \/ i - 1 \in 1..n)
  OBVIOUS
<1>2. i = 1 \/ new[i - 1] = file[i - 1]
  BY <1>1, Zenon
<1> QED
  BY <1>1, <1>2 DEF WholeUpTo

\* What a step of w does to its own record and to the settled part: the part
\* grows only when a whole record is unlocked.
LEMMA SettledBy ==
    ASSUME IInv, RecordEndsFile, NEW w \in Writers, Deliver(w), Clean'
    PROVE  \/ SettledLength' = SettledLength
           \/ /\ SettledLength = at[w]
              /\ SettledLength' = at[w] + Chunks
              /\ RecordIn(mailbox, w)
              /\ mailbox' = mailbox
<1> USE LenNat, MboxAssumption
<1>1. IInv' /\ Effect(w)
  BY StepInv, Zenon
<1>2. /\ Len(mailbox) \in Nat /\ Len(mailbox') \in Nat
      /\ \A v \in Writers : at[v] \in Nat /\ at'[v] \in Nat
      /\ holder \in Writers \cup {NoWriter} /\ holder' \in Writers \cup {NoWriter}
      /\ pc \in [Writers -> PC] /\ pc' \in [Writers -> PC]
      /\ result \in [Writers -> Result]
      /\ at \in [Writers -> Nat]
  BY <1>1, Zenon DEF IInv, TypeOK
<1>3. /\ \A v \in Writers : holder = v <=> pc[v] \in Locked
      /\ \A v \in Writers : holder' = v <=> pc'[v] \in Locked
      /\ pc[w] \in {"unlock"} => RecordIn(mailbox, w) /\ Len(mailbox) = at[w] + Chunks
      /\ pc[w] = "resync" => Len(mailbox) = at[w]
  BY <1>1, Zenon DEF IInv, Mutex, Region, RegionOf, RecordEndsFile
<1>4. /\ \A v \in Writers \ {w} : pc'[v] = pc[v] /\ at'[v] = at[v]
      /\ mailbox' = mailbox \/ pc[w] \in Appending
      /\ at'[w] = at[w] \/ (at'[w] = Len(mailbox) /\ mailbox' = mailbox /\ pc[w] = "seek")
  BY <1>1, Zenon DEF Effect
<1>5. /\ holder \in Writers /\ pc[holder] # "seek" => SettledLength = at[holder]
      /\ ~(holder \in Writers /\ pc[holder] # "seek") => SettledLength = Len(mailbox)
  BY <1>2, <1>3, Zenon DEF SettledLength, Locked
<1>6. /\ holder' \in Writers /\ pc'[holder'] # "seek" => SettledLength' = at'[holder']
      /\ ~(holder' \in Writers /\ pc'[holder'] # "seek") => SettledLength' = Len(mailbox')
  BY <1>2, <1>3, Zenon DEF SettledLength, Locked
<1>7. CASE pc[w] \notin Locked /\ pc'[w] \notin Locked
  <2>1. holder' = holder /\ mailbox' = mailbox /\ holder # w
    BY <1>2, <1>3, <1>4, <1>7, Zenon DEF Appending, Locked
  <2> QED
    BY <1>4, <1>5, <1>6, <2>1, Zenon
<1>8. CASE pc[w] \notin Locked /\ pc'[w] \in Locked
  <2>1. Lock(w) /\ holder = NoWriter /\ pc'[w] = "seek"
    BY <1>2, <1>8, Zenon DEF Deliver, Open, Lock, SeekEnd, WriteRecord, SyncFile, SyncParent, Truncate,
                  ResyncAfterRollback, Unlock, Kill, Step, Return, Locked
  <2>2. mailbox' = mailbox /\ holder' = w
    BY <2>1, <1>3, <1>4, <1>8, Zenon DEF Appending
  <2> QED
    BY <1>5, <1>6, <2>1, <2>2, Zenon
<1>9. CASE pc[w] \in Locked /\ pc'[w] \in Locked
  <2>1. holder = w /\ holder' = w
    BY <1>3, <1>9, Zenon
  <2>2. pc'[w] # "seek"
    BY <1>2, <1>9, Zenon DEF Deliver, Open, Lock, SeekEnd, WriteRecord, AfterWrite, SyncFile, SyncParent, Truncate,
                  ResyncAfterRollback, Unlock, Kill, Step, Return, Locked
  <2>3. CASE pc[w] = "seek"
    <3>1. at' = [at EXCEPT ![w] = Len(mailbox)]
      BY <1>2, <1>9, <2>3, Zenon DEF Deliver, Open, Lock, SeekEnd, WriteRecord, SyncFile, SyncParent, Truncate,
                  ResyncAfterRollback, Unlock, Kill, Step, Return, Locked
    <3> QED
      BY <1>2, <1>5, <1>6, <2>1, <2>2, <2>3, <3>1, Zenon
  <2>4. CASE pc[w] # "seek"
    BY <1>4, <1>5, <1>6, <2>1, <2>2, <2>4, Zenon
  <2> QED
    BY <2>3, <2>4, Zenon
<1>10. CASE pc[w] \in Locked /\ pc'[w] \notin Locked
  <2>1. holder = w /\ holder' # w
    BY <1>3, <1>10, Zenon
  <2>2. holder' = NoWriter
    <3>1. ASSUME NEW v \in Writers, v # w PROVE holder' # v
      BY <1>3, <1>4, <2>1, <3>1, Zenon
    <3> QED
      BY <1>2, <2>1, <3>1, Zenon
  <2>3. /\ pc[w] \in {"seek", "resync", "unlock"}
        /\ mailbox' = mailbox
    <3>1. result'[w] \notin {"killed", "norollback"}
      BY Zenon DEF Clean
    <3> QED
      BY <1>2, <1>10, <3>1, Zenon DEF Deliver, Open, Lock, SeekEnd, WriteRecord, AfterWrite, SyncFile, SyncParent,
                  Truncate, ResyncAfterRollback, Unlock, Kill, Step, Return, Locked
  <2>4. SettledLength' = Len(mailbox)
    BY <1>6, <2>2, <2>3, MboxAssumption, Zenon
  <2> QED
    BY <1>3, <1>5, <2>1, <2>3, <2>4, Zenon
<1> QED
  BY <1>7, <1>8, <1>9, <1>10, Zenon

\* No writer forgets that it was killed or could not roll back.
LEMMA CleanBefore ==
    ASSUME IInv, NEW w \in Writers, Deliver(w), Clean'
    PROVE  Clean
<1>1. \A v \in Writers \ {w} : result'[v] = result[v]
  BY StepInv, Zenon DEF Effect
<1>2. pc[w] # "done"
  BY Zenon DEF Deliver, Open, Lock, SeekEnd, WriteRecord, SyncFile, SyncParent, Truncate,
         ResyncAfterRollback, Unlock, Kill, Step, Return
<1>3. result[w] = "pending"
  BY <1>2, Zenon DEF IInv, Finished
<1> QED
  BY <1>1, <1>3, Zenon DEF Clean

\* A step of any writer keeps a finished record at the end of the file.
LEMMA RecordEndsStep ==
    ASSUME IInv, RecordEndsFile, NEW w \in Writers, Deliver(w)
    PROVE  RecordEndsFile'
<1> USE LenNat, MboxAssumption
<1>1. IInv' /\ Effect(w)
  BY StepInv, Zenon
<1> SUFFICES ASSUME NEW v \in Writers, pc'[v] \in {"syncfile", "syncdir", "unlock"}
             PROVE  Len(mailbox') = at'[v] + Chunks
  BY Zenon DEF RecordEndsFile
<1>2. CASE v # w
  <2>1. pc'[v] = pc[v] /\ at'[v] = at[v] /\ (mailbox' = mailbox \/ pc[w] \in Appending)
    BY <1>1, <1>2, Zenon DEF Effect
  <2>2. pc[w] \notin Locked
    BY <1>2, <2>1, Zenon DEF IInv, Mutex, Locked
  <2> QED
    BY <2>1, <2>2, Zenon DEF RecordEndsFile, Appending
<1>3. CASE v = w
  <2>1. CASE pc[w] \in {"syncfile", "syncdir", "unlock"}
    <3>1. mailbox' = mailbox /\ at' = at
      BY <2>1, Zenon DEF Deliver, Open, Lock, SeekEnd, WriteRecord, SyncFile, SyncParent, Truncate,
                  ResyncAfterRollback, Unlock, Kill, Step, Return
    <3> QED
      BY <1>3, <2>1, <3>1, Zenon DEF RecordEndsFile
  <2>2. CASE pc[w] \notin {"syncfile", "syncdir", "unlock"}
    <3>0. pc \in [Writers -> PC]
      BY Zenon DEF IInv, TypeOK
    <3>1. /\ pc[w] = "write"
          /\ written[w] + 1 = Chunks
          /\ at' = at
          /\ mailbox' = PutAt(mailbox, at[w] + written[w], <<w, written[w] + 1>>)
      BY <1>3, <2>2, <3>0, Zenon DEF Deliver, Open, Lock, SeekEnd, WriteRecord, SyncFile, SyncParent, Truncate,
                  ResyncAfterRollback, Unlock, Kill, Step, Return
    <3>2. Len(mailbox) = at[w] + written[w] /\ mailbox \in Seq(Chunk) /\ Len(mailbox) \in Nat
          /\ written[w] \in Nat /\ at[w] \in Nat
      <4>1. mailbox \in Seq(Chunk) /\ written[w] \in Nat /\ at[w] \in Nat
        BY DEF IInv, TypeOK
      <4>2. RegionOf(w)
        BY Zenon DEF IInv, Region
      <4>3. Len(mailbox) = at[w] + written[w]
        BY <3>1, <4>2, Zenon DEF RegionOf
      <4> QED
        BY <4>1, <4>3, Zenon
    <3> DEFINE c == <<w, written[w] + 1>>
    <3>3. c \in Chunk
      BY <3>1, <3>2 DEF Chunk
    <3>4. mailbox' = PutAt(mailbox, Len(mailbox), c)
      BY <3>1, <3>2, Zenon
    <3> HIDE DEF c
    <3>5. Len(mailbox') = Len(mailbox) + 1
      BY <3>2, <3>3, <3>4, PutAtEnd, Zenon
    <3>6. Len(mailbox') = at[w] + Chunks
      <4>1. Len(mailbox) + 1 = at[w] + (written[w] + 1)
        BY <3>2
      <4> QED
        BY <3>1, <3>5, <4>1, Zenon
    <3> QED
      BY <1>3, <3>1, <3>6, Zenon
  <2> QED
    BY <2>1, <2>2, Zenon
<1> QED
  BY <1>2, <1>3, Zenon

\* A step keeps the settled part of a mailbox a sequence of complete records.
LEMMA WholeStep ==
    ASSUME WholeInv, NEW w \in Writers, Deliver(w)
    PROVE  WholeInv'
<1>1. IInv' /\ RecordEndsFile'
  BY StepInv, RecordEndsStep, Zenon DEF WholeInv
<1>2. ASSUME Clean' PROVE WholeUpTo(mailbox, SettledLength)'
  <2>1. WholeUpTo(mailbox, SettledLength)
    BY <1>2, CleanBefore, WholeMeans, Zenon DEF WholeInv
  <2>2. \A i \in 1..SettledLength : mailbox'[i] = mailbox[i]
    BY StepSettles, Zenon DEF WholeInv
  <2>3. SettledLength \in Nat
    BY LenNat, MboxAssumption, Zenon DEF WholeInv, IInv, TypeOK, SettledLength
  <2>4. CASE SettledLength' = SettledLength
    <3>1. WholeUpTo(mailbox', SettledLength)
      BY <2>1, <2>2, <2>3, WholeSame, Zenon
    <3> QED
      BY <2>4, <3>1, Zenon DEF WholeUpTo
  <2>5. CASE /\ SettledLength = at[w]
             /\ SettledLength' = at[w] + Chunks
             /\ RecordIn(mailbox, w)
             /\ mailbox' = mailbox
    <3>1. WholeUpTo(mailbox, SettledLength + Chunks)
      <4>1. mailbox \in Seq(Chunk)
        BY Zenon DEF WholeInv, IInv, TypeOK
      <4> QED
        BY <2>1, <2>3, <2>5, <4>1, RecordExtends, Zenon DEF RecordIn
    <3> QED
      BY <2>5, <3>1, Zenon DEF WholeUpTo
  <2> QED
    BY <1>2, <2>4, <2>5, SettledBy, Zenon DEF WholeInv
<1>3. WholeRecords'
  BY <1>2, Zenon DEF WholeRecords, WholeUpTo, Clean
<1> QED
  BY <1>1, <1>3, Zenon DEF WholeInv

\* As long as nobody was killed and every rollback succeeded, the mailbox in front
\* of the current record is a concatenation of complete records, so that the next
\* postmark begins a line (append_with_operations, rollback_with).
THEOREM RecordsStayWhole == Spec => []WholeRecords
<1>1. Init => WholeInv
  <2> SUFFICES ASSUME Init PROVE WholeInv
    BY Zenon
  <2>1. SettledLength = 0
    BY MboxAssumption, Zenon DEF Init, SettledLength
  <2> QED
    BY <2>1, InitInv DEF WholeInv, Init, RecordEndsFile, WholeRecords
<1>2. WholeInv /\ [Next]_vars => WholeInv'
  <2> SUFFICES ASSUME WholeInv, [Next]_vars PROVE WholeInv'
    BY Zenon
  <2>1. CASE UNCHANGED vars
    <3>1. IInv'
      BY <2>1, NextInv, Zenon DEF WholeInv
    <3>2. RecordEndsFile'
      BY <2>1, Zenon DEF WholeInv, RecordEndsFile, vars
    <3>3. WholeRecords'
      BY <2>1, Zenon DEF WholeInv, WholeRecords, SettledLength, vars
    <3> QED
      BY <3>1, <3>2, <3>3, Zenon DEF WholeInv
  <2> QED
    BY <2>1, WholeStep, Zenon DEF Next, Terminated
<1>3. WholeInv => WholeRecords
  BY Zenon DEF WholeInv
<1> QED
  BY <1>1, <1>2, <1>3, PTL DEF Spec

=============================================================================
