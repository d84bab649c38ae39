---------------------------- MODULE AuditLogProofs ----------------------------
(***************************************************************************)
(* What a write does to the audit log, however it goes wrong: lemmas for   *)
(* the parts that keep one.                                                *)
(***************************************************************************)
EXTENDS AuditLog, SequenceTheorems, FiniteSetTheorems, TLAPS

Unread == {Torn, Broken}

(* A line that was cut off cannot be read.                                 *)
CutsUnread(log) ==
    \A d \in Days : \A i \in DOMAIN log[d] : ~log[d][i].ended => log[d][i].text \in Unread

Logs(Event) == [Days -> Seq(Lines(Event))]

(* There are no lines at first.                                            *)
LEMMA NoFilesRead ==
    ASSUME NEW E
    PROVE  /\ NoFiles \in Logs(E) /\ CutsUnread(NoFiles)
           /\ \A e : ~Recorded(NoFiles, e)
BY DEF NoFiles, Logs, CutsUnread, Recorded

(* A log of some events is one of more.                                    *)
LEMMA LogsMonotone ==
    ASSUME NEW E, NEW F, E \subseteq F, NEW log \in Logs(E)
    PROVE  log \in Logs(F)
<1>1. Lines(E) \subseteq Lines(F)
  BY DEF Lines
<1> QED
  BY <1>1 DEF Logs

(* A write adds a line to one file, and may take the line that was cut off *)
(* with it (audit_log.py, _write).                                         *)
LEMMA WriteAddsLine ==
    ASSUME NEW E, NEW log \in Logs(E), CutsUnread(log), NEW day \in Days, NEW event \in E,
           NEW outcome \in QuoteOutcomes \ {"nothing"}
    PROVE  \E kept \in Seq(Lines(E)), line \in Lines(E) :
             /\ Write(log, day, event, outcome) = [log EXCEPT ![day] = Append(kept, line)]
             /\ Len(kept) <= Len(log[day])
             /\ \A i \in 1 .. Len(kept) : kept[i] = log[day][i]
             /\ \A i \in 1 .. Len(log[day]) : i > Len(kept) => log[day][i].text \in Unread
             /\ line.text \in {event} \cup Unread
             /\ ~line.ended => line.text \in Unread
             /\ outcome = "whole" /\ ~Cut(log[day]) => line.text = event
<1> DEFINE file == log[day]
           kept == IF Cut(file) THEN Front(file) ELSE file
           text == CASE outcome = "split" \/ (Cut(file) /\ Last(file).text = Broken) -> Broken
                     [] outcome = "whole" /\ ~Cut(file) -> event
                     [] OTHER -> Torn
           line == [text |-> text, ended |-> outcome = "whole"]
<1>1. file \in Seq(Lines(E)) /\ Len(file) \in Nat
  BY DEF Logs
<1>2. Write(log, day, event, outcome) = [log EXCEPT ![day] = Append(kept, line)]
  BY DEF Write
<1>3. /\ text \in {event} \cup Unread
      /\ outcome # "whole" => text \in Unread
      /\ outcome = "whole" /\ ~Cut(file) => text = event
  BY DEF Unread
<1>4. line \in Lines(E)
  BY <1>3 DEF Lines, Unread
<1>5. /\ kept \in Seq(Lines(E)) /\ Len(kept) <= Len(file)
      /\ \A i \in 1 .. Len(kept) : kept[i] = file[i]
      /\ \A i \in 1 .. Len(file) : i > Len(kept) => file[i].text \in Unread
  <2>1. CASE Cut(file)
    <3>1. Len(file) - 1 \in 0 .. Len(file) /\ Len(file) \in 1 .. Len(file)
      BY <1>1, <2>1, EmptySeq DEF Cut
    <3>2. kept = SubSeq(file, 1, Len(file) - 1)
      BY <2>1 DEF Front
    <3>3. /\ kept \in Seq(Lines(E)) /\ Len(kept) = Len(file) - 1
          /\ \A i \in 1 .. Len(kept) : kept[i] = file[i]
      <4> DEFINE n == Len(file) - 1
      <4>1. n \in 0 .. Len(file) /\ n \in Nat
        BY <1>1, <3>1
      <4>2. SubSeq(file, 1, n) \in Seq(Lines(E)) /\ Len(SubSeq(file, 1, n)) = n
            /\ \A i \in 1 .. n : SubSeq(file, 1, n)[i] = file[i]
        <5> HIDE DEF n
        <5> QED
          BY <1>1, <4>1, SubSeqProperties
      <4> QED
        BY <3>2, <4>2
    <3>4. file[Len(file)].text \in Unread
      BY <1>1, <2>1, <3>1 DEF Cut, Last, CutsUnread
    <3> QED
      BY <1>1, <3>1, <3>3, <3>4
  <2>2. CASE ~Cut(file)
    BY <1>1, <2>2
  <2> QED
    BY <2>1, <2>2
<1>6. line.text = text /\ line.ended = (outcome = "whole")
  OBVIOUS
<1> HIDE DEF kept, text, line
<1> QED
  BY <1>2, <1>3, <1>4, <1>5, <1>6

(* A write loses no record, and adds none but its own.                     *)
LEMMA WriteRecords ==
    ASSUME NEW E, NEW log \in Logs(E), CutsUnread(log), NEW day \in Days, NEW event \in E,
           NEW outcome \in QuoteOutcomes, NEW after, after = Write(log, day, event, outcome)
    PROVE  /\ after \in Logs(E) /\ CutsUnread(after)
           /\ \A e : e \notin Unread =>
                /\ Recorded(log, e) => Recorded(after, e)
                /\ Recorded(after, e) => Recorded(log, e) \/ e = event
<1>1. CASE outcome = "nothing"
  BY <1>1 DEF Write
<1>2. CASE outcome # "nothing"
  <2>1. PICK kept \in Seq(Lines(E)), line \in Lines(E) :
             /\ after = [log EXCEPT ![day] = Append(kept, line)]
             /\ Len(kept) <= Len(log[day])
             /\ \A i \in 1 .. Len(kept) : kept[i] = log[day][i]
             /\ \A i \in 1 .. Len(log[day]) : i > Len(kept) => log[day][i].text \in Unread
             /\ line.text \in {event} \cup Unread
             /\ ~line.ended => line.text \in Unread
    BY <1>2, WriteAddsLine
  <2> DEFINE all == Append(kept, line)
             n == Len(kept) + 1
  <2>2. log[day] \in Seq(Lines(E)) /\ Len(log[day]) \in Nat /\ Len(kept) \in Nat
    BY DEF Logs
  <2>3. all \in Seq(Lines(E)) /\ DOMAIN all = 1 .. n /\ all[n] = line
        /\ \A i \in 1 .. Len(kept) : all[i] = log[day][i]
    BY <2>1, AppendProperties
  <2>4. /\ after[day] = all /\ \A d \in Days \ {day} : after[d] = log[d]
        /\ after \in Logs(E)
    BY <2>1, <2>3 DEF Logs
  <2> HIDE DEF all
  <2>5. CutsUnread(after)
    <3> SUFFICES ASSUME NEW i \in 1 .. n, ~all[i].ended PROVE all[i].text \in Unread
      BY <2>3, <2>4 DEF CutsUnread
    <3>1. CASE i = n
      BY <2>1, <2>3, <3>1
    <3>2. CASE i \in 1 .. Len(kept)
      BY <2>1, <2>2, <2>3, <3>2 DEF CutsUnread
    <3> QED
      BY <2>2, <3>1, <3>2
  <2>6. ASSUME NEW e, e \notin Unread, Recorded(log, e)
        PROVE  Recorded(after, e)
    <3>0. PICK d \in Days : \E i \in DOMAIN log[d] : log[d][i].text = e
      BY <2>6 DEF Recorded
    <3>1. PICK i \in DOMAIN log[d] : log[d][i].text = e
      BY <3>0
    <3>2. CASE d # day
      BY <2>4, <3>1, <3>2 DEF Recorded
    <3>3. CASE d = day
      <4>1. i \in 1 .. Len(kept)
        BY <2>1, <2>2, <2>6, <3>1, <3>3
      <4> QED
        BY <2>2, <2>3, <2>4, <3>1, <3>3, <4>1 DEF Recorded
    <3> QED
      BY <3>2, <3>3
  <2>7. ASSUME NEW e, e \notin Unread, Recorded(after, e)
        PROVE  Recorded(log, e) \/ e = event
    <3>1. PICK d \in Days : \E i \in DOMAIN after[d] : after[d][i].text = e
      BY <2>7 DEF Recorded
    <3>2. CASE d # day
      BY <2>4, <3>1, <3>2 DEF Recorded
    <3>3. CASE d = day
      <4>1. PICK i \in 1 .. n : all[i].text = e
        BY <2>3, <2>4, <3>1, <3>3
      <4>2. CASE i = n
        BY <2>1, <2>3, <2>7, <4>1, <4>2
      <4>3. CASE i \in 1 .. Len(kept)
        BY <2>1, <2>2, <2>3, <4>1, <4>3 DEF Recorded
      <4> QED
        BY <2>2, <4>2, <4>3
    <3> QED
      BY <3>2, <3>3
  <2> QED
    BY <2>4, <2>5, <2>6, <2>7
<1> QED
  BY <1>1, <1>2
-----------------------------------------------------------------------------
(* There are finitely many lines.                                          *)
LEMMA PlacesFinite ==
    ASSUME NEW E, NEW log \in Logs(E)
    PROVE  IsFiniteSet(Places(log))
<1> DEFINE f == [d \in Days |-> {d} \X DOMAIN log[d]]
           files == {{d} \X DOMAIN log[d] : d \in Days}
<1>1. f \in Surjection(Days, files)
  BY DEF Surjection
<1>2. IsFiniteSet(Days)
  BY AuditLogAssumption, FS_Interval DEF Days
<1>3. IsFiniteSet(files)
  BY <1>1, <1>2, FS_Surjection
<1>4. \A T \in files : IsFiniteSet(T)
  <2> SUFFICES ASSUME NEW d \in Days PROVE IsFiniteSet({d} \X DOMAIN log[d])
    OBVIOUS
  <2>1. IsFiniteSet({d})
    BY FS_Singleton
  <2>2. Len(log[d]) \in Nat /\ DOMAIN log[d] = 1 .. Len(log[d])
    BY DEF Logs
  <2>3. IsFiniteSet(DOMAIN log[d])
    BY <2>2, FS_Interval
  <2> QED
    BY <2>1, <2>3, FS_Product
<1> QED
  BY <1>3, <1>4, FS_UNION DEF Places

(* A place is a day and a line of its file.                                *)
LEMMA PlacesAre ==
    ASSUME NEW log, NEW p
    PROVE  p \in Places(log) <=>
             p = <<p[1], p[2]>> /\ p[1] \in Days /\ p[2] \in DOMAIN log[p[1]]
BY DEF Places

(* Of two lines one is the newer, and newer than what that one is.         *)
LEMMA NewerOrders ==
    ASSUME NEW E, NEW log \in Logs(E)
    PROVE  /\ \A p \in Places(log) : ~Newer(p, p)
           /\ \A p, q \in Places(log) : p # q => Newer(p, q) \/ Newer(q, p)
           /\ \A p, q, r \in Places(log) : Newer(p, q) /\ Newer(q, r) => Newer(p, r)
<1>1. \A p \in Places(log) : p = <<p[1], p[2]>> /\ p[1] \in Int /\ p[2] \in Int
  <2> SUFFICES ASSUME NEW p \in Places(log)
               PROVE  p = <<p[1], p[2]>> /\ p[1] \in Int /\ p[2] \in Int
    OBVIOUS
  <2>1. p = <<p[1], p[2]>> /\ p[1] \in Days /\ p[2] \in DOMAIN log[p[1]]
    BY PlacesAre
  <2>2. DOMAIN log[p[1]] = 1 .. Len(log[p[1]])
    BY <2>1 DEF Logs
  <2> QED
    BY <2>1, <2>2, AuditLogAssumption DEF Days
<1> QED
  BY <1>1 DEF Newer

(* The lines that are newer than p, counted.                               *)
Rank(log, wanted, p) == Cardinality(NewerFound(log, wanted, p)) + 1

(* The lines that are found are counted from 1 to the last, each once.     *)
LEMMA RanksCount ==
    ASSUME NEW E, NEW log \in Logs(E), NEW wanted
    PROVE  LET n == Cardinality(Found(log, wanted)) IN
           /\ n \in Nat
           /\ \A p \in Found(log, wanted) : Rank(log, wanted, p) \in 1 .. n
           /\ \A p, q \in Found(log, wanted) : Rank(log, wanted, p) = Rank(log, wanted, q) => p = q
           /\ \A k \in 1 .. n : \E p \in Found(log, wanted) : Rank(log, wanted, p) = k
<1> DEFINE found == Found(log, wanted)
           n == Cardinality(found)
           newer(p) == NewerFound(log, wanted, p)
           rank == [p \in found |-> Rank(log, wanted, p)]
<1>1. IsFiniteSet(found) /\ n \in Nat /\ found \subseteq Places(log)
  BY PlacesFinite, FS_Subset, FS_CardinalityType DEF Found
<1>2. ASSUME NEW p \in found
      PROVE  /\ IsFiniteSet(newer(p)) /\ Cardinality(newer(p)) \in Nat
             /\ Cardinality(newer(p)) < n
  <2>1. newer(p) \subseteq found /\ p \notin newer(p)
    BY <1>1, NewerOrders DEF NewerFound
  <2>2. IsFiniteSet(newer(p)) /\ Cardinality(newer(p)) <= n /\ Cardinality(newer(p)) # n
    BY <1>1, <2>1, FS_Subset
  <2> QED
    BY <1>1, <2>2, FS_CardinalityType
<1>3. \A p \in found : rank[p] \in 1 .. n /\ rank[p] = Rank(log, wanted, p)
  BY <1>1, <1>2 DEF Rank
<1>4. ASSUME NEW p \in found, NEW q \in found, Newer(p, q)
      PROVE  rank[p] < rank[q]
  <2>1. newer(p) \subseteq newer(q) /\ p \in newer(q) /\ p \notin newer(p)
    BY <1>1, <1>4, NewerOrders DEF NewerFound
  <2>2. Cardinality(newer(p)) < Cardinality(newer(q))
    BY <1>2, <2>1, FS_Subset
  <2> QED
    BY <1>2, <2>2 DEF Rank
<1>5. \A p, q \in found : rank[p] = rank[q] => p = q
  <2> SUFFICES ASSUME NEW p \in found, NEW q \in found, p # q
               PROVE  rank[p] # rank[q]
    OBVIOUS
  <2>1. Newer(p, q) \/ Newer(q, p)
    BY <1>1, NewerOrders
  <2> QED
    BY <1>3, <1>4, <2>1
<1>6. rank \in Injection(found, 1 .. n)
  BY <1>3, <1>5 DEF Injection, IsInjective
<1>7. IsFiniteSet(1 .. n) /\ Cardinality(1 .. n) = n
  BY <1>1, FS_Interval
<1>8. rank \in Surjection(found, 1 .. n)
  BY <1>6, <1>7, FS_Injection
<1>9. \A k \in 1 .. n : \E p \in found : rank[p] = k
  BY <1>8 DEF Surjection
<1> QED
  BY <1>1, <1>3, <1>5, <1>9

(* What is read is found, newest first and no more than asked for.         *)
LEMMA ReadsInOrder ==
    ASSUME NEW E, NEW log \in Logs(E), NEW wanted, NEW limit \in Nat
    PROVE  LET n == Cardinality(Found(log, wanted))
               read == ReadFiltered(log, wanted, limit)
           IN
           /\ n \in Nat /\ read \in Seq(wanted) /\ Len(read) <= limit
           /\ Len(read) = IF n < limit THEN n ELSE limit
           /\ \A p \in Found(log, wanted) : Rank(log, wanted, p) <= limit =>
                /\ Rank(log, wanted, p) \in DOMAIN read
                /\ read[Rank(log, wanted, p)] = TextAt(log, p)
<1> DEFINE n == Cardinality(Found(log, wanted))
           read == ReadFiltered(log, wanted, limit)
           m == IF n < limit THEN n ELSE limit
<1>1. n \in Nat /\ m \in Nat /\ m <= n /\ m <= limit
  BY RanksCount
<1>2. \A k \in 1 .. n :
        KthFound(log, wanted, k) \in Found(log, wanted)
        /\ Rank(log, wanted, KthFound(log, wanted, k)) = k
  <2> SUFFICES ASSUME NEW k \in 1 .. n
               PROVE  /\ KthFound(log, wanted, k) \in Found(log, wanted)
                      /\ Rank(log, wanted, KthFound(log, wanted, k)) = k
    OBVIOUS
  <2>1. \E p \in Found(log, wanted) : Rank(log, wanted, p) = k
    BY RanksCount
  <2> QED
    BY <2>1 DEF KthFound, Rank
<1>3. read = [k \in 1 .. m |-> TextAt(log, KthFound(log, wanted, k))]
  BY DEF ReadFiltered
<1>4. \A k \in 1 .. m : TextAt(log, KthFound(log, wanted, k)) \in wanted
  BY <1>1, <1>2 DEF Found
<1>5. read \in Seq(wanted) /\ Len(read) = m
  <2> HIDE DEF m, read
  <2> QED
    BY <1>1, <1>3, <1>4, IsASeq
<1>6. ASSUME NEW p \in Found(log, wanted), Rank(log, wanted, p) <= limit
      PROVE  /\ Rank(log, wanted, p) \in DOMAIN read
             /\ read[Rank(log, wanted, p)] = TextAt(log, p)
  <2>1. Rank(log, wanted, p) \in 1 .. n
    BY RanksCount
  <2>2. Rank(log, wanted, p) \in 1 .. m
    BY <1>1, <1>6, <2>1
  <2>3. KthFound(log, wanted, Rank(log, wanted, p)) = p
    BY <1>2, <2>1, RanksCount
  <2> HIDE DEF m, read
  <2> QED
    BY <1>3, <2>2, <2>3
<1> HIDE DEF m, read
<1>7. m <= limit /\ m = IF n < limit THEN n ELSE limit
  BY <1>1 DEF m
<1> QED
  BY <1>1, <1>5, <1>6, <1>7 DEF read

(* A reader with room left has read every record there is.                 *)
LEMMA ReadsAll ==
    ASSUME NEW E, NEW log \in Logs(E), NEW wanted, NEW limit \in Nat,
           Len(ReadFiltered(log, wanted, limit)) # limit,
           NEW e \in wanted, Recorded(log, e)
    PROVE  e \in ToSet(ReadFiltered(log, wanted, limit))
<1>1. PICK d \in Days : \E i \in DOMAIN log[d] : log[d][i].text = e
  BY DEF Recorded
<1>2. PICK i \in DOMAIN log[d] : log[d][i].text = e
  BY <1>1
<1>3. PICK p : p = <<d, i>>
  OBVIOUS
<1>4. p \in Found(log, wanted) /\ TextAt(log, p) = e
  BY <1>2, <1>3, PlacesAre DEF Found, TextAt
<1>5. Rank(log, wanted, p) <= limit
  <2>1. Rank(log, wanted, p) \in 1 .. Cardinality(Found(log, wanted))
    BY <1>4, RanksCount
  <2>2. /\ Cardinality(Found(log, wanted)) \in Nat
        /\ Cardinality(Found(log, wanted)) < limit
    BY ReadsInOrder
  <2> QED
    BY <2>1, <2>2
<1>6. LET read == ReadFiltered(log, wanted, limit) IN
      \E k \in DOMAIN read : read[k] = e
  BY <1>4, <1>5, ReadsInOrder
<1> QED
  BY <1>6 DEF ToSet

(* The first that is read is the newest.                                   *)
LEMMA ReadsNewest ==
    ASSUME NEW E, NEW log \in Logs(E), NEW wanted
    PROVE  /\ Found(log, wanted) = {} => ReadFiltered(log, wanted, 1) = <<>>
           /\ \A p \in Found(log, wanted) :
                (\A q \in Found(log, wanted) : ~Newer(q, p)) =>
                    ReadFiltered(log, wanted, 1) = <<TextAt(log, p)>>
<1> DEFINE read == ReadFiltered(log, wanted, 1)
           n == Cardinality(Found(log, wanted))
<1>0. 1 \in Nat
  OBVIOUS
<1>1. n \in Nat /\ read \in Seq(wanted) /\ Len(read) = IF n < 1 THEN n ELSE 1
  BY ONLY <1>0, log \in Logs(E), ReadsInOrder
<1>2. ASSUME Found(log, wanted) = {} PROVE read = <<>>
  <2>1. n = 0
    BY <1>2, FS_EmptySet
  <2> HIDE DEF read, n
  <2> QED
    BY <1>1, <2>1, EmptySeq
<1>3. ASSUME NEW p \in Found(log, wanted), \A q \in Found(log, wanted) : ~Newer(q, p)
      PROVE  read = <<TextAt(log, p)>>
  <2>1. NewerFound(log, wanted, p) = {}
    BY <1>3 DEF NewerFound
  <2>2. Rank(log, wanted, p) = 1
    BY <2>1, FS_EmptySet DEF Rank
  <2>3. 1 \in DOMAIN read /\ read[1] = TextAt(log, p)
    BY <2>2, ReadsInOrder
  <2> HIDE DEF read, n
  <2>4. Len(read) = 1
    BY <1>1, <2>3
  <2> QED
    BY <1>1, <2>3, <2>4
<1> HIDE DEF read
<1> QED
  BY <1>2, <1>3 DEF read

(* A record that is written today is the newest line there is, and what is *)
(* found of other records stays where it is: only cuts are written over.   *)
LEMMA WriteAtEnd ==
    ASSUME NEW E, NEW log \in Logs(E), CutsUnread(log), NEW day \in Days,
           NEW event \in E, event \notin Unread, ~Recorded(log, event),
           \A d \in Days : d > day => log[d] = <<>>,
           NEW outcome \in QuoteOutcomes, NEW after, after = Write(log, day, event, outcome)
    PROVE  /\ \A d \in Days : d > day => after[d] = <<>>
           /\ Recorded(after, event) =>
                \E p \in Places(after) :
                    TextAt(after, p) = event /\ \A q \in Places(after) : ~Newer(q, p)
           /\ \A wanted :
                /\ wanted \cap Unread = {}
                /\ event \in wanted => ~Recorded(after, event)
                => /\ Found(after, wanted) = Found(log, wanted)
                   /\ \A p \in Found(log, wanted) : TextAt(after, p) = TextAt(log, p)
<1>1. CASE outcome = "nothing"
  BY <1>1 DEF Write
<1>2. CASE outcome # "nothing"
  <2>1. PICK kept \in Seq(Lines(E)), line \in Lines(E) :
             /\ after = [log EXCEPT ![day] = Append(kept, line)]
             /\ Len(kept) <= Len(log[day])
             /\ \A i \in 1 .. Len(kept) : kept[i] = log[day][i]
             /\ \A i \in 1 .. Len(log[day]) : i > Len(kept) => log[day][i].text \in Unread
             /\ line.text \in {event} \cup Unread
    BY <1>2, WriteAddsLine
  <2> DEFINE all == Append(kept, line)
             n == Len(kept) + 1
  <2>2. /\ log[day] \in Seq(Lines(E)) /\ Len(log[day]) \in Nat /\ Len(kept) \in Nat
        /\ DOMAIN log[day] = 1 .. Len(log[day])
    BY DEF Logs
  <2>3. all \in Seq(Lines(E)) /\ DOMAIN all = 1 .. n /\ all[n] = line
        /\ \A i \in 1 .. Len(kept) : all[i] = log[day][i]
    BY <2>1, AppendProperties
  <2>4. after[day] = all /\ \A d \in Days \ {day} : after[d] = log[d]
    BY <2>1, <2>3 DEF Logs
  <2> HIDE DEF all
  <2>5. day \in Nat /\ \A d \in Days : d \in Nat
    BY DEF Days
  <2>6. \A d \in Days : d > day => after[d] = <<>>
    BY <2>4, <2>5
  <2>7. ASSUME Recorded(after, event)
        PROVE  \E p \in Places(after) :
                 TextAt(after, p) = event /\ \A q \in Places(after) : ~Newer(q, p)
    <3>1. PICK d \in Days : \E i \in DOMAIN after[d] : after[d][i].text = event
      BY <2>7 DEF Recorded
    <3>2. PICK i \in DOMAIN after[d] : after[d][i].text = event
      BY <3>1
    <3>3. d = day /\ i = n
      <4>1. d = day
        BY <2>4, <3>2 DEF Recorded
      <4>2. CASE i \in 1 .. Len(kept)
        BY <2>1, <2>2, <2>3, <2>4, <3>2, <4>1, <4>2 DEF Recorded
      <4>3. i \in 1 .. n
        BY <2>3, <2>4, <4>1
      <4> QED
        BY <2>2, <4>1, <4>2, <4>3
    <3>4. PICK p : p = <<day, n>>
      OBVIOUS
    <3>5. p \in Places(after) /\ TextAt(after, p) = event
      BY <2>3, <2>4, <3>2, <3>3, <3>4, PlacesAre DEF TextAt
    <3>6. ASSUME NEW q \in Places(after) PROVE ~Newer(q, p)
      <4>1. q[1] \in Days /\ q[2] \in DOMAIN after[q[1]]
        BY PlacesAre
      <4>2. ~(q[1] > day)
        BY <2>6, <4>1
      <4>3. q[1] = day => q[2] \in 1 .. n
        BY <2>3, <2>4, <4>1
      <4> QED
        BY <2>2, <2>5, <3>4, <4>1, <4>2, <4>3 DEF Newer
    <3> QED
      BY <3>5, <3>6
  <2>8. ASSUME NEW wanted, wanted \cap Unread = {}, event \in wanted => ~Recorded(after, event)
        PROVE  /\ Found(after, wanted) = Found(log, wanted)
               /\ \A p \in Found(log, wanted) : TextAt(after, p) = TextAt(log, p)
    <3>1. line.text \notin wanted
      <4>1. line.text = event => Recorded(after, event)
        <5>1. n \in 1 .. n
          BY <2>2
        <5> QED
          BY <2>3, <2>4, <5>1 DEF Recorded
      <4> QED
        BY <2>1, <2>8, <4>1
    <3>2. ASSUME NEW p \in Found(log, wanted)
          PROVE  p \in Found(after, wanted) /\ TextAt(after, p) = TextAt(log, p)
      <4>1. /\ p = <<p[1], p[2]>> /\ p[1] \in Days /\ p[2] \in DOMAIN log[p[1]]
            /\ log[p[1]][p[2]].text \in wanted
        BY PlacesAre DEF Found, TextAt
      <4>2. CASE p[1] # day
        BY <2>4, <4>1, <4>2, PlacesAre DEF Found, TextAt
      <4>3. CASE p[1] = day
        <5>1. p[2] \in 1 .. Len(kept)
          BY <2>1, <2>2, <2>8, <4>1, <4>3
        <5>2. p[2] \in 1 .. n /\ all[p[2]] = log[day][p[2]]
          BY <2>2, <2>3, <5>1
        <5> QED
          BY <2>3, <2>4, <4>1, <4>3, <5>2, PlacesAre DEF Found, TextAt
      <4> QED
        BY <4>2, <4>3
    <3>3. ASSUME NEW p \in Found(after, wanted)
          PROVE  p \in Found(log, wanted)
      <4>1. /\ p = <<p[1], p[2]>> /\ p[1] \in Days /\ p[2] \in DOMAIN after[p[1]]
            /\ after[p[1]][p[2]].text \in wanted
        BY PlacesAre DEF Found, TextAt
      <4>2. CASE p[1] # day
        BY <2>4, <4>1, <4>2, PlacesAre DEF Found, TextAt
      <4>3. CASE p[1] = day
        <5>1. p[2] \in 1 .. Len(kept)
          BY <2>2, <2>3, <2>4, <3>1, <4>1, <4>3
        <5>2. p[2] \in DOMAIN log[day] /\ all[p[2]] = log[day][p[2]]
          BY <2>1, <2>2, <2>3, <5>1
        <5> QED
          BY <2>4, <4>1, <4>3, <5>2, PlacesAre DEF Found, TextAt
      <4> QED
        BY <4>2, <4>3
    <3> QED
      BY <3>2, <3>3
  <2> QED
    BY <2>6, <2>7, <2>8
<1> QED
  BY <1>1, <1>2
=============================================================================
