------------------------- MODULE AuditChain_proofs -------------------------
(***************************************************************************)
(* What the audit trail promises, for any number of processes, records,    *)
(* failures and edits.                                                     *)
(***************************************************************************)
EXTENDS AuditChain, SequenceTheorems, FiniteSetTheorems, WellFoundedInduction, TLAPS

(* Nothing counts further than the records that were hashed, and only a    *)
(* file's last line can lack its newline.  (And the medium is one of those *)
(* set.)                                                                   *)
Counted ==
    /\ medium \in DOMAIN Sharing /\ edits \in Nat /\ faults \in Nat
    /\ unended => medium = "file" /\ log # <<>>
    /\ Len(log) <= hashes
    /\ \A i \in 1..Len(log) : log[i].hash <= hashes
    /\ \A w \in Writers :
         /\ head[w].count <= hashes /\ head[w].last <= hashes
         /\ \A i \in 1..Len(known[w]) : known[w][i].hash <= hashes

(* Two whole lines with one hash are one line, whether they are stored or  *)
(* remembered.                                                             *)
Lines == {log[i] : i \in 1..Len(log)}
           \cup UNION {{known[w][i] : i \in 1..Len(known[w])} : w \in Writers}
Whole(a) == a.state = "whole"
Committed == \A a, b \in Lines : Whole(a) /\ Whole(b) /\ a.hash = b.hash => a = b

(* A process's idea of the head is the end of the chain it has verified    *)
(* and extended.                                                           *)
Heads ==
    \A w \in Writers :
        /\ Verifies(known[w])
        /\ head[w].count = Len(known[w]) /\ head[w].last = last_hash(known[w])

CInv == TypeOK /\ Counted /\ Committed /\ Heads

----------------------------------------------------------------------------
(* What record() and the restart rely on besides: one process appends to a *)
(* file, and no write to it fails and leaves something behind.             *)
Reliable ==
    "file" \in DOMAIN Sharing =>
        /\ "file" \notin LateFailure
        /\ \A v, w \in Sharing["file"] : v = w

(* Until somebody edits it or a line of it is spoilt, the trail verifies,  *)
(* and a running process knows a beginning of it, on a file all of it.     *)
Kept ==
    /\ \A w \in Writers : head[w].up => w \in Sharing[medium]
    /\ edits = 0 /\ ~Torn =>
         /\ Verifies(log)
         /\ \A w \in Writers : head[w].up =>
              /\ Len(known[w]) <= Len(log)
              /\ \A i \in 1..Len(known[w]) : log[i] = known[w][i]
              /\ medium = "file" => Len(known[w]) = Len(log)

KInv == CInv /\ Kept

----------------------------------------------------------------------------
(* A non-empty set of numbers has a least one.                             *)
LEMMA Least ==
    ASSUME NEW S \in SUBSET Nat, S # {}
    PROVE  \E n \in S : \A m \in S : n <= m
<1> DEFINE R == {ss \in Nat \X Nat : ss[1] < ss[2]}
<1>1. IsWellFoundedOn(R, Nat)
  BY NatLessThanWellFounded DEF OpToRel
<1>2. PICK x \in S : \A y \in S : ~ (<<y, x>> \in R)
  BY <1>1, WFMin
<1>3. ASSUME NEW m \in S PROVE x <= m
  <2>1. x \in Nat /\ m \in Nat /\ <<m, x>> \in Nat \X Nat
    BY <1>3
  <2>2. <<m, x>> \in R \/ ~(m < x)
    BY <2>1
  <2> QED BY <1>2, <2>1, <2>2
<1> QED BY <1>3

(* Two chains that verify, are as long as each other and end with the same *)
(* hash are the same chain, when a hash commits to its line: the last      *)
(* lines are equal, so the hashes they follow are, and so on to the first. *)
LEMMA SameEndSameChain ==
    ASSUME NEW l \in Seq(Line), NEW k \in Seq(Line),
           Verifies(l), Verifies(k), Len(l) = Len(k), last_hash(l) = last_hash(k),
           \A i \in 1..Len(l), j \in 1..Len(k) : l[i].hash = k[j].hash => l[i] = k[j]
    PROVE  l = k
<1> DEFINE n == Len(l)
<1> DEFINE Apart == {d \in Nat : d < n /\ l[n - d] # k[n - d]}
<1>1. n \in Nat /\ Len(k) = n
  OBVIOUS
<1>2. CASE Apart = {}
  <2>1. ASSUME NEW i \in 1..n PROVE l[i] = k[i]
    <3>1. n - i \in Nat /\ n - i < n /\ n - (n - i) = i
      BY <1>1, <2>1
    <3> QED BY <1>2, <3>1
  <2> QED BY <1>1, <2>1
<1>3. CASE Apart # {}
  <2>1. PICK d \in Apart : \A e \in Apart : d <= e
    BY <1>3, Least
  <2>2. d \in Nat /\ d < n /\ l[n - d] # k[n - d] /\ n - d \in 1..n
    BY <1>1, <2>1
  <2>3. CASE d = 0
    <3>1. l[n].hash = k[n].hash
      BY <1>1, <2>2, <2>3 DEF last_hash
    <3> QED BY <1>1, <2>2, <2>3, <3>1
  <2>4. CASE d # 0
    <3>1. d - 1 \in Nat /\ d - 1 < n /\ n - (d - 1) = (n - d) + 1 /\ (n - d) + 1 \in 1..n
      BY <1>1, <2>2, <2>4
    <3>2. d - 1 \notin Apart
      BY <2>1, <2>2
    <3>3. l[(n - d) + 1] = k[(n - d) + 1]
      BY <3>1, <3>2
    <3>4. /\ l[(n - d) + 1].prev_hash = l[n - d].hash
          /\ k[(n - d) + 1].prev_hash = k[n - d].hash
      <4>1. (n - d) + 1 # 1 /\ ((n - d) + 1) - 1 = n - d
        BY <1>1, <2>2
      <4> QED BY <1>1, <3>1, <4>1 DEF Verifies
    <3> QED BY <1>1, <2>2, <3>3, <3>4
  <2> QED BY <2>3, <2>4
<1> QED BY <1>2, <1>3

(* A trail that verifies and ends at a running process's head is what that *)
(* process knows.                                                          *)
LEMMA CInvVouches == CInv => ChainVouchesForPrefix
<1> SUFFICES ASSUME CInv, NEW w \in Writers, Verifies(log), Len(log) = head[w].count,
                    last_hash(log) = head[w].last
             PROVE  log = known[w]
  BY DEF ChainVouchesForPrefix
<1>1. /\ log \in Seq(Line) /\ known[w] \in Seq(Line)
      /\ Verifies(known[w]) /\ Len(log) = Len(known[w]) /\ last_hash(log) = last_hash(known[w])
  BY DEF CInv, TypeOK, Heads
<1>2. ASSUME NEW i \in 1..Len(log), NEW j \in 1..Len(known[w]), log[i].hash = known[w][j].hash
      PROVE  log[i] = known[w][j]
  <2>1. log[i] \in Lines /\ known[w][j] \in Lines
    BY DEF Lines
  <2>2. Whole(log[i]) /\ Whole(known[w][j])
    BY <1>1 DEF Verifies, Whole
  <2> QED BY <1>2, <2>1, <2>2 DEF CInv, Committed
<1> QED BY <1>1, <1>2, SameEndSameChain

----------------------------------------------------------------------------
(* The lines of a sequence one longer.                                     *)
LEMMA Appended ==
    ASSUME NEW l \in Seq(Line), NEW a \in Line
    PROVE  /\ Append(l, a) \in Seq(Line)
           /\ Len(Append(l, a)) = Len(l) + 1
           /\ \A i \in 1..Len(l) : Append(l, a)[i] = l[i]
           /\ Append(l, a)[Len(l) + 1] = a
  OBVIOUS

(* A chain that verifies, and the record its end calls for, verify.        *)
LEMMA ExtendedVerifies ==
    ASSUME NEW l \in Seq(Line), NEW a \in Line, Verifies(l),
           Whole(a), a.sequence = Len(l), a.prev_hash = last_hash(l)
    PROVE  Verifies(Append(l, a)) /\ last_hash(Append(l, a)) = a.hash
<1> DEFINE m == Append(l, a)
<1>1. m \in Seq(Line) /\ Len(m) = Len(l) + 1 /\ (\A i \in 1..Len(l) : m[i] = l[i])
      /\ m[Len(l) + 1] = a /\ Len(l) \in Nat
  BY Appended
<1> HIDE DEF m
<1>2. ASSUME NEW i \in 1..Len(m)
      PROVE  /\ m[i].state = "whole" /\ m[i].sequence = i - 1
             /\ m[i].prev_hash = IF i = 1 THEN GENESIS ELSE m[i - 1].hash
  <2>1. CASE i \in 1..Len(l)
    <3>1. i # 1 => i - 1 \in 1..Len(l)
      BY <1>1, <2>1
    <3> QED BY <1>1, <2>1, <3>1 DEF Verifies
  <2>2. CASE i = Len(l) + 1
    <3>1. IF i = 1 THEN l = <<>> ELSE l # <<>> /\ i - 1 = Len(l) /\ m[i - 1] = l[Len(l)]
      BY <1>1, <2>2
    <3> QED BY <1>1, <2>2, <3>1 DEF Whole, last_hash
  <2> QED BY <1>1, <2>1, <2>2
<1>3. last_hash(m) = a.hash
  BY <1>1 DEF last_hash
<1> QED BY <1>2, <1>3 DEF Verifies, m

(* Beginnings of a chain that verifies verify.                             *)
LEMMA PrefixVerifies ==
    ASSUME NEW l \in Seq(Line), NEW a \in Line, Verifies(Append(l, a))
    PROVE  Verifies(l)
<1> DEFINE m == Append(l, a)
<1>1. Len(m) = Len(l) + 1 /\ (\A i \in 1..Len(l) : m[i] = l[i]) /\ Len(l) \in Nat
  BY Appended
<1> HIDE DEF m
<1>2. ASSUME NEW i \in 1..Len(l)
      PROVE  /\ l[i].state = "whole" /\ l[i].sequence = i - 1
             /\ l[i].prev_hash = IF i = 1 THEN GENESIS ELSE l[i - 1].hash
  <2>1. i \in 1..Len(m) /\ (i # 1 => i - 1 \in 1..Len(l))
    BY <1>1
  <2>2. Verifies(m)
    BY DEF m
  <2> QED BY <1>1, <2>1, <2>2 DEF Verifies
<1> QED BY <1>2 DEF Verifies

(* What storing a line leaves: one line more, or the last one spoilt.      *)
LEMMA Storing ==
    ASSUME log \in Seq(Line), unended => log # <<>>, NEW a \in Line, NEW newline, Stores(a, newline)
    PROVE  /\ log' \in Seq(Line) /\ Len(log') \in Nat /\ Len(log') <= Len(log) + 1
           /\ \/ ~unended /\ log' = Append(log, a)
              \/ /\ unended /\ Len(log') = Len(log) /\ Len(log) \in 1..Len(log)
                 /\ log'[Len(log)].state = "torn" /\ log'[Len(log)].hash = log[Len(log)].hash
                 /\ \A i \in 1..Len(log) : i # Len(log) => log'[i] = log[i]
<1> DEFINE n == Len(log)
<1>1. n \in Nat /\ \A i \in 1..n : log[i] \in Line
  OBVIOUS
<1>2. CASE ~unended
  BY <1>1, <1>2, Appended DEF Stores
<1>3. CASE unended
  <2>1. n \in 1..n
    BY <1>1, <1>3
  <2>2. log' = [log EXCEPT ![n] = [log[n] EXCEPT !.state = "torn"]]
    BY <1>1, <1>3, <2>1 DEF Stores
  <2>3. [log[n] EXCEPT !.state = "torn"] \in Line
    BY <1>1, <2>1 DEF Line
  <2>4. log' \in Seq(Line) /\ Len(log') = n
    BY <1>1, <2>1, <2>2, <2>3
  <2>5. /\ log'[n].state = "torn" /\ log'[n].hash = log[n].hash
        /\ \A i \in 1..n : i # n => log'[i] = log[i]
    BY <1>1, <2>1, <2>2, <2>4 DEF Line
  <2> QED BY <1>1, <1>3, <2>1, <2>4, <2>5
<1> QED BY <1>2, <1>3

(* What an edit leaves: no more lines, each of which was there, or is      *)
(* not whole, or is the one that was given a fresh hash.                   *)
LEMMA Editing ==
    ASSUME TypeOK, MaxHashes \in Nat, Edit, Counted
    PROVE  /\ log' \in Seq(Line) /\ Len(log') <= Len(log)
           /\ hashes' \in 0..MaxHashes /\ hashes <= hashes'
           /\ \/ \A i \in 1..Len(log') : \E j \in 1..Len(log) :
                   log'[i] = log[j] \/ (~Whole(log'[i]) /\ log'[i].hash = log[j].hash)
              \/ /\ hashes' = hashes + 1
                 /\ \E k \in 1..Len(log) :
                      /\ log'[k].hash = hashes + 1
                      /\ \A i \in 1..Len(log') : i # k => \E j \in 1..Len(log) : log'[i] = log[j]
<1> DEFINE n == Len(log)
<1>1. log \in Seq(Line) /\ n \in Nat /\ \A i \in 1..n : log[i] \in Line
  BY DEF TypeOK
<1>2. hashes \in 0..MaxHashes /\ n <= hashes
  BY DEF TypeOK, Counted
<1>3. PICK k \in 1..n :
         \/ log' = Without(log, k) /\ UNCHANGED hashes
         \/ k > 1 /\ log' = [log EXCEPT ![k - 1] = log[k], ![k] = log[k - 1]] /\ UNCHANGED hashes
         \/ log' = [log EXCEPT ![k].state = "stale"] /\ UNCHANGED hashes
         \/ /\ Hashes
            /\ log' = [log EXCEPT ![k].hash = hashes + 1,
                          ![k].prev_hash = last_hash(SubSeq(log, 1, k - 1))]
  BY DEF Edit
<1>4. CASE log' = Without(log, k) /\ UNCHANGED hashes
  <2> DEFINE p == SubSeq(log, 1, k - 1)
  <2> DEFINE q == SubSeq(log, k + 1, n)
  <2>1. p \in Seq(Line) /\ Len(p) = k - 1 /\ \A i \in 1..(k - 1) : p[i] = log[i]
    BY <1>1
  <2>2. q \in Seq(Line) /\ Len(q) = n - k /\ \A i \in 1..(n - k) : q[i] = log[k + i]
    BY <1>1
  <2> HIDE DEF p, q
  <2>3. p \o q \in Seq(Line) /\ Len(p \o q) = n - 1
        /\ \A i \in 1..(n - 1) : (p \o q)[i] = IF i <= k - 1 THEN p[i] ELSE q[i - (k - 1)]
    <3>1. p \o q \in Seq(Line) /\ Len(p \o q) = Len(p) + Len(q)
      BY <2>1, <2>2, ConcatProperties
    <3>2. \A i \in 1..(Len(p) + Len(q)) :
            (p \o q)[i] = IF i <= Len(p) THEN p[i] ELSE q[i - Len(p)]
      BY <2>1, <2>2
    <3>3. (k - 1) + (n - k) = n - 1
      BY <1>1
    <3> QED BY <2>1, <2>2, <3>1, <3>2, <3>3
  <2>4. log' = p \o q
    BY <1>4 DEF Without, p, q
  <2>5. ASSUME NEW i \in 1..Len(log') PROVE \E j \in 1..n : log'[i] = log[j]
    <3>1. CASE i <= k - 1
      BY <1>1, <2>1, <2>3, <2>4, <3>1
    <3>2. CASE ~(i <= k - 1)
      <4>1. i - (k - 1) \in 1..(n - k) /\ k + (i - (k - 1)) = i + 1 /\ i + 1 \in 1..n
        BY <1>1, <2>3, <2>4, <3>2
      <4> QED BY <1>1, <2>2, <2>3, <2>4, <3>2, <4>1
    <3> QED BY <3>1, <3>2
  <2>6. hashes' = hashes /\ Len(log') <= Len(log) /\ log' \in Seq(Line)
    BY <1>1, <1>4, <2>3, <2>4
  <2> QED BY <1>2, <2>5, <2>6
<1>5. CASE k > 1 /\ log' = [log EXCEPT ![k - 1] = log[k], ![k] = log[k - 1]] /\ UNCHANGED hashes
  <2>1. log' \in Seq(Line) /\ Len(log') = n
    BY <1>1, <1>5
  <2>2. ASSUME NEW i \in 1..n PROVE \E j \in 1..n : log'[i] = log[j]
    BY <1>1, <1>5
  <2>3. hashes' = hashes
    BY <1>5
  <2> QED BY <1>1, <1>2, <2>1, <2>2, <2>3
<1>6. CASE log' = [log EXCEPT ![k].state = "stale"] /\ UNCHANGED hashes
  <2>1. log' = [log EXCEPT ![k] = [log[k] EXCEPT !.state = "stale"]]
    BY <1>1, <1>6
  <2>2. [log[k] EXCEPT !.state = "stale"] \in Line
    BY <1>1 DEF Line
  <2>3. log' \in Seq(Line) /\ Len(log') = n
    BY <1>1, <2>1, <2>2
  <2>4. ASSUME NEW i \in 1..n
        PROVE  log'[i] = log[i] \/ (~Whole(log'[i]) /\ log'[i].hash = log[i].hash)
    BY <1>1, <2>1, <2>3 DEF Whole, Line
  <2> QED BY <1>1, <1>2, <1>6, <2>3, <2>4
<1>7. CASE /\ Hashes
           /\ log' = [log EXCEPT ![k].hash = hashes + 1,
                         ![k].prev_hash = last_hash(SubSeq(log, 1, k - 1))]
  <2> DEFINE p == SubSeq(log, 1, k - 1)
  <2>1. p \in Seq(Line) /\ Len(p) = k - 1
    BY <1>1
  <2>2. last_hash(p) \in 0..MaxHashes
    BY <2>1 DEF last_hash, GENESIS, Line
  <2> HIDE DEF p
  <2>3. log' = [log EXCEPT ![k] = [log[k] EXCEPT !.hash = hashes + 1, !.prev_hash = last_hash(p)]]
    BY <1>1, <1>7 DEF p
  <2>4. hashes' = hashes + 1 /\ hashes + 1 \in 1..MaxHashes
    BY <1>2, <1>7 DEF Hashes
  <2>5. [log[k] EXCEPT !.hash = hashes + 1, !.prev_hash = last_hash(p)] \in Line
    BY <1>1, <2>2, <2>4 DEF Line
  <2>6. log' \in Seq(Line) /\ Len(log') = n
    BY <1>1, <2>3, <2>5
  <2>7. log'[k].hash = hashes + 1 /\ \A i \in 1..n : i # k => log'[i] = log[i]
    BY <1>1, <2>3 DEF Line
  <2> QED BY <1>1, <1>2, <2>4, <2>6, <2>7
<1> QED BY <1>3, <1>4, <1>5, <1>6, <1>7

----------------------------------------------------------------------------
(* Lines have their shape.                                                 *)
LEMMA LinesTyped ==
    ASSUME CInv
    PROVE  /\ \A a \in Lines : a \in Line /\ a.hash \in Nat /\ a.hash <= hashes
           /\ \A i \in 1..Len(log) : log[i] \in Line /\ log[i].hash \in Nat /\ log[i].hash <= hashes
           /\ \A w \in Writers : \A i \in 1..Len(known[w]) :
                known[w][i] \in Line /\ known[w][i].hash \in Nat /\ known[w][i].hash <= hashes
           /\ \A w \in Writers : /\ head[w].count \in Nat /\ head[w].count <= hashes
                                 /\ head[w].last \in Nat /\ head[w].last <= hashes
           /\ hashes \in Nat /\ hashes <= MaxHashes
           /\ Len(log) \in Nat /\ Len(log) <= hashes
<1>1. \A a \in Line : a.hash \in Nat
  BY Trails DEF Line
<1>2. \A i \in 1..Len(log) : log[i] \in Line /\ log[i].hash \in Nat /\ log[i].hash <= hashes
  BY <1>1 DEF CInv, TypeOK, Counted
<1>3. ASSUME NEW w \in Writers, NEW i \in 1..Len(known[w])
      PROVE  known[w][i] \in Line /\ known[w][i].hash \in Nat /\ known[w][i].hash <= hashes
  <2>1. known[w] \in Seq(Line)
    BY DEF CInv, TypeOK
  <2> QED BY <1>1, <2>1 DEF CInv, Counted
<1>4. ASSUME NEW a \in Lines PROVE a \in Line /\ a.hash \in Nat /\ a.hash <= hashes
  BY <1>2, <1>3 DEF Lines
<1>5. \A w \in Writers : /\ head[w].count \in Nat /\ head[w].count <= hashes
                         /\ head[w].last \in Nat /\ head[w].last <= hashes
  <2>1. MaxHashes \in Nat
    BY Trails
  <2>2. head \in [Writers -> [count: 0..MaxHashes, last: 0..MaxHashes, up: BOOLEAN]]
    BY DEF CInv, TypeOK
  <2>3. \A w \in Writers : head[w].count \in Nat /\ head[w].last \in Nat
    BY <2>1, <2>2
  <2>4. \A w \in Writers : head[w].count <= hashes /\ head[w].last <= hashes
    BY DEF CInv, Counted
  <2> QED BY <2>3, <2>4
<1>7. Len(log) \in Nat /\ Len(log) <= hashes
  BY DEF CInv, TypeOK, Counted
<1>6. hashes \in Nat /\ hashes <= MaxHashes
  BY Trails DEF CInv, TypeOK
<1> QED BY <1>2, <1>3, <1>4, <1>5, <1>6, <1>7

(* A fresh hash on one new line keeps hashes unique.                       *)
LEMMA FreshCommits ==
    ASSUME CInv, NEW new, new.hash = hashes + 1,
           \A a \in Lines' : a \in Lines \/ ~Whole(a) \/ a = new
    PROVE  Committed'
<1>1. \A a \in Lines : a.hash \in Nat /\ a.hash <= hashes
  BY LinesTyped
<1>2. hashes \in Nat
  BY Trails DEF CInv, TypeOK
<1>3. ASSUME NEW a \in Lines', NEW b \in Lines', Whole(a), Whole(b), a.hash = b.hash
      PROVE  a = b
  <2>1. (a \in Lines \/ a = new) /\ (b \in Lines \/ b = new)
    BY <1>3
  <2>2. a \in Lines => a.hash # hashes + 1
    BY <1>1, <1>2
  <2>3. b \in Lines => b.hash # hashes + 1
    BY <1>1, <1>2
  <2>4. (a \in Lines /\ b \in Lines) \/ (a = new /\ b = new)
    BY <1>3, <2>1, <2>2, <2>3
  <2> QED BY <1>3, <2>4 DEF CInv, Committed
<1> QED BY <1>3 DEF Committed, Whole

(* The record a process builds fits its idea of the chain, and so does the *)
(* beginning of it that a cut write leaves.                                *)
LEMMA BodyFits ==
    ASSUME CInv, NEW w \in Writers, Hashes
    PROVE  /\ body(w) \in Line /\ Whole(body(w)) /\ body(w).hash = hashes + 1
           /\ body(w).sequence = head[w].count /\ body(w).prev_hash = head[w].last
           /\ \A s \in {"whole", "torn"} :
                /\ [body(w) EXCEPT !.state = s] \in Line
                /\ [body(w) EXCEPT !.state = s].hash = hashes + 1
                /\ [body(w) EXCEPT !.state = s].state = s
                /\ [body(w) EXCEPT !.state = s].sequence = head[w].count
                /\ [body(w) EXCEPT !.state = s].prev_hash = head[w].last
           /\ hashes' = hashes + 1 /\ hashes + 1 \in 1..MaxHashes
           /\ Verifies(Append(known[w], body(w)))
           /\ last_hash(Append(known[w], body(w))) = hashes + 1
<1>1. /\ hashes \in 0..MaxHashes /\ head[w].count \in 0..MaxHashes /\ head[w].last \in 0..MaxHashes
      /\ known[w] \in Seq(Line)
  BY DEF CInv, TypeOK
<1>2. hashes' = hashes + 1 /\ hashes + 1 \in 1..MaxHashes
  BY Trails, <1>1 DEF Hashes
<1>3. /\ body(w) \in Line /\ Whole(body(w)) /\ body(w).hash = hashes + 1
      /\ body(w).sequence = head[w].count /\ body(w).prev_hash = head[w].last
  BY <1>1, <1>2 DEF body, Line, Whole
<1>4. ASSUME NEW s \in {"whole", "torn"}
      PROVE  /\ [body(w) EXCEPT !.state = s] \in Line
             /\ [body(w) EXCEPT !.state = s].hash = hashes + 1
             /\ [body(w) EXCEPT !.state = s].state = s
             /\ [body(w) EXCEPT !.state = s].sequence = head[w].count
             /\ [body(w) EXCEPT !.state = s].prev_hash = head[w].last
  BY <1>1, <1>2 DEF body, Line
<1>5. head[w].count = Len(known[w]) /\ head[w].last = last_hash(known[w]) /\ Verifies(known[w])
  BY DEF CInv, Heads
<1> QED BY <1>1, <1>2, <1>3, <1>4, <1>5, ExtendedVerifies

(* A failed write stored a line built from the process's idea of the       *)
(* chain, whole or not, with its newline or without.                       *)
LEMMA FailedWrite ==
    ASSUME CInv, NEW w \in Writers, Hashes, Stores(body(w), TRUE) \/ CutShort(body(w))
    PROVE  \E a \in Line, newline \in BOOLEAN :
             /\ a.hash = hashes + 1 /\ a.state \in {"whole", "torn"}
             /\ a.sequence = head[w].count /\ a.prev_hash = head[w].last
             /\ newline \/ medium = "file"
             /\ newline => a = body(w)
             /\ Stores(a, newline)
<1>1. CASE Stores(body(w), TRUE)
  BY <1>1, BodyFits DEF Whole
<1>2. CASE CutShort(body(w))
  <2>1. PICK s \in {"whole", "torn"} : Stores([body(w) EXCEPT !.state = s], FALSE)
    BY <1>2 DEF CutShort
  <2>2. medium = "file"
    BY <1>2 DEF CutShort
  <2> QED BY <2>1, <2>2, BodyFits
<1> QED BY <1>1, <1>2

(* Which lines there are after one was stored.                             *)
LEMMA StoredLines ==
    ASSUME CInv, NEW a \in Line, NEW newline \in BOOLEAN, Stores(a, newline),
           newline \/ medium = "file", UNCHANGED medium
    PROVE  /\ log' \in Seq(Line) /\ Len(log') \in Nat /\ Len(log') <= Len(log) + 1
           /\ unended' \in BOOLEAN /\ (unended' => medium' = "file" /\ log' # <<>>)
           /\ \A i \in 1..Len(log') :
                \/ i \in 1..Len(log) /\ log'[i] = log[i]
                \/ log'[i] = a
                \/ i \in 1..Len(log) /\ ~Whole(log'[i]) /\ log'[i].hash = log[i].hash
<1>1. log \in Seq(Line) /\ Len(log) \in Nat /\ (unended => log # <<>>)
  BY DEF CInv, TypeOK, Counted
<1>2. /\ log' \in Seq(Line) /\ Len(log') \in Nat /\ Len(log') <= Len(log) + 1
      /\ \/ ~unended /\ log' = Append(log, a)
         \/ /\ unended /\ Len(log') = Len(log) /\ Len(log) \in 1..Len(log)
            /\ log'[Len(log)].state = "torn" /\ log'[Len(log)].hash = log[Len(log)].hash
            /\ \A i \in 1..Len(log) : i # Len(log) => log'[i] = log[i]
  BY <1>1, Storing
<1>3. unended' = ~newline
  BY DEF Stores
<1>4. log' # <<>>
  BY <1>1, <1>2
<1>7. unended' \in BOOLEAN /\ (unended' => medium' = "file" /\ log' # <<>>)
  BY <1>3, <1>4
<1>5. CASE ~unended /\ log' = Append(log, a)
  <2>1. \A i \in 1..Len(log') : (i \in 1..Len(log) /\ log'[i] = log[i]) \/ log'[i] = a
    BY <1>1, <1>5, Appended
  <2> QED BY <1>2, <1>7, <2>1
<1>6. CASE /\ unended /\ Len(log') = Len(log) /\ Len(log) \in 1..Len(log)
           /\ log'[Len(log)].state = "torn" /\ log'[Len(log)].hash = log[Len(log)].hash
           /\ \A i \in 1..Len(log) : i # Len(log) => log'[i] = log[i]
  <2>1. \A i \in 1..Len(log') :
          \/ i \in 1..Len(log) /\ log'[i] = log[i]
          \/ i \in 1..Len(log) /\ ~Whole(log'[i]) /\ log'[i].hash = log[i].hash
    BY <1>1, <1>6 DEF Whole
  <2> QED BY <1>2, <1>7, <2>1
<1> QED BY <1>2, <1>5, <1>6

(* Storing a record, or the beginning of one, and nothing else.            *)
LEMMA StoreKeeps ==
    ASSUME CInv, NEW w \in Writers, Hashes, UNCHANGED <<medium, known, acked, edits>>, Fault,
           Stores(body(w), TRUE) \/ CutShort(body(w)),
           UNCHANGED head \/ head' = [head EXCEPT ![w].up = FALSE]
    PROVE  CInv'
<1>1. PICK a \in Line, newline \in BOOLEAN :
        a.hash = hashes + 1 /\ (newline \/ medium = "file") /\ Stores(a, newline)
  BY FailedWrite
<1>2. /\ log \in Seq(Line) /\ hashes \in Nat /\ Len(log) \in Nat
      /\ hashes' = hashes + 1 /\ hashes + 1 \in 1..MaxHashes
  <2>1. hashes' = hashes + 1 /\ hashes + 1 \in 1..MaxHashes
    BY BodyFits
  <2>2. log \in Seq(Line)
    BY DEF CInv, TypeOK
  <2> QED BY <2>1, <2>2, LinesTyped
<1>3. /\ log' \in Seq(Line) /\ Len(log') \in Nat /\ Len(log') <= Len(log) + 1
      /\ unended' \in BOOLEAN /\ (unended' => medium' = "file" /\ log' # <<>>)
      /\ \A i \in 1..Len(log') :
           \/ i \in 1..Len(log) /\ log'[i] = log[i]
           \/ log'[i] = a
           \/ i \in 1..Len(log) /\ ~Whole(log'[i]) /\ log'[i].hash = log[i].hash
  BY <1>1, StoredLines
<1>5. /\ head' \in [Writers -> [count: 0..MaxHashes, last: 0..MaxHashes, up: BOOLEAN]]
      /\ \A v \in Writers : head'[v].count = head[v].count /\ head'[v].last = head[v].last
  <2>1. head \in [Writers -> [count: 0..MaxHashes, last: 0..MaxHashes, up: BOOLEAN]]
    BY DEF CInv, TypeOK
  <2>2. CASE UNCHANGED head
    BY <2>1, <2>2
  <2>3. CASE head' = [head EXCEPT ![w].up = FALSE]
    BY <2>1, <2>3
  <2> QED BY <2>2, <2>3
<1>6. TypeOK'
  <2>1. hashes' \in 0..MaxHashes
    BY Trails, <1>2
  <2> QED BY <1>3, <1>5, <2>1 DEF CInv, TypeOK
<1>7. Counted'
  <2>1. ASSUME NEW i \in 1..Len(log') PROVE log'[i].hash <= hashes + 1
    BY <1>1, <1>2, <1>3, LinesTyped
  <2>2. medium' \in DOMAIN Sharing /\ edits' \in Nat /\ faults' \in Nat /\ Len(log) <= hashes
    BY DEF CInv, Counted, Fault
  <2>3. ASSUME NEW v \in Writers
        PROVE  /\ head'[v].count <= hashes' /\ head'[v].last <= hashes'
               /\ \A i \in 1..Len(known'[v]) : known'[v][i].hash <= hashes'
    <3>1. /\ head[v].count \in Nat /\ head[v].count <= hashes
          /\ head[v].last \in Nat /\ head[v].last <= hashes
          /\ \A i \in 1..Len(known[v]) : known[v][i].hash \in Nat /\ known[v][i].hash <= hashes
      BY LinesTyped
    <3> QED BY <1>2, <1>5, <3>1
  <2>4. Len(log') <= hashes'
    BY <1>2, <1>3, <2>2
  <2> QED BY <1>2, <1>3, <2>1, <2>2, <2>3, <2>4 DEF Counted
<1>8. Committed'
  <2>1. \A b \in Lines' : b \in Lines \/ ~Whole(b) \/ b = a
    BY <1>3 DEF Lines
  <2> QED BY <1>1, <2>1, FreshCommits
<1>9. Heads'
  BY <1>5 DEF CInv, Heads
<1> QED BY <1>6, <1>7, <1>8, <1>9 DEF CInv

(* A process that dies without storing anything.                           *)
LEMMA DeathKeeps ==
    ASSUME CInv, NEW w \in Writers, UNCHANGED <<medium, log, unended, hashes, known, acked, edits>>,
           Fault, head' = [head EXCEPT ![w].up = FALSE]
    PROVE  CInv'
<1>1. /\ head' \in [Writers -> [count: 0..MaxHashes, last: 0..MaxHashes, up: BOOLEAN]]
      /\ \A v \in Writers : head'[v].count = head[v].count /\ head'[v].last = head[v].last
  BY DEF CInv, TypeOK
<1>2. TypeOK' /\ Heads'
  BY <1>1 DEF CInv, TypeOK, Heads
<1>3. faults' \in Nat
  BY DEF CInv, Counted, Fault
<1>4. Counted'
  BY <1>1, <1>3 DEF CInv, Counted
<1>5. Lines' = Lines
  BY DEF Lines
<1>6. Committed'
  BY <1>5 DEF CInv, Committed, Whole
<1> QED BY <1>2, <1>4, <1>6 DEF CInv

(* record(), to its end.                                                   *)
LEMMA RecordKeeps ==
    ASSUME CInv, UNCHANGED medium, NEW w \in Writers, Record(w)
    PROVE  CInv'
<1> DEFINE a == body(w)
<1>1. /\ a \in Line /\ a.hash = hashes + 1
      /\ hashes' = hashes + 1 /\ hashes + 1 \in 1..MaxHashes
      /\ Verifies(Append(known[w], a)) /\ last_hash(Append(known[w], a)) = hashes + 1
  BY BodyFits DEF Record
<1>2. Stores(a, TRUE)
  BY DEF Record
<1> HIDE DEF a
<1>3. log \in Seq(Line) /\ known \in [Writers -> Seq(Line)] /\ known[w] \in Seq(Line)
      /\ head \in [Writers -> [count: 0..MaxHashes, last: 0..MaxHashes, up: BOOLEAN]]
  BY DEF CInv, TypeOK
<1>4. /\ log' \in Seq(Line) /\ Len(log') \in Nat /\ Len(log') <= Len(log) + 1
      /\ unended' \in BOOLEAN /\ (unended' => medium' = "file" /\ log' # <<>>)
  BY <1>1, <1>2, StoredLines
<1>5. \A i \in 1..Len(log') :
           \/ i \in 1..Len(log) /\ log'[i] = log[i]
           \/ log'[i] = a
           \/ i \in 1..Len(log) /\ ~Whole(log'[i]) /\ log'[i].hash = log[i].hash
  BY <1>1, <1>2, StoredLines
<1>6. /\ known' \in [Writers -> Seq(Line)]
      /\ known'[w] = Append(known[w], a)
      /\ \A v \in Writers : v # w => known'[v] = known[v]
  <2>1. known' = [known EXCEPT ![w] = Append(known[w], a)]
    BY DEF Record, a
  <2> QED BY <1>1, <1>3, <2>1, Appended
<1>7. /\ Len(known'[w]) = Len(known[w]) + 1 /\ Len(known[w]) \in Nat
      /\ \A i \in 1..Len(known'[w]) : (i \in 1..Len(known[w]) /\ known'[w][i] = known[w][i]) \/ known'[w][i] = a
  BY <1>1, <1>3, <1>6, Appended
<1>8. /\ head[w].count + 1 <= hashes + 1
      /\ head'[w].count = head[w].count + 1 /\ head'[w].last = hashes + 1
      /\ \A v \in Writers : v # w => head'[v] = head[v]
      /\ head' \in [Writers -> [count: 0..MaxHashes, last: 0..MaxHashes, up: BOOLEAN]]
  <2>1. head[w].count + 1 <= hashes + 1
    BY LinesTyped DEF CInv, Counted
  <2>2. head[w].count + 1 \in 0..MaxHashes /\ hashes + 1 \in 0..MaxHashes
    BY <1>1, <2>1, LinesTyped, Trails
  <2>3. head' = [head EXCEPT ![w].count = @ + 1, ![w].last = hashes + 1]
    BY DEF Record
  <2> QED BY <1>3, <2>1, <2>2, <2>3
<1>9. TypeOK'
  <2>1. hashes' \in 0..MaxHashes
    BY <1>1, Trails
  <2>2. acked' \subseteq 1..MaxHashes
    BY <1>1 DEF Record, CInv, TypeOK
  <2> QED BY <1>4, <1>6, <1>8, <2>1, <2>2 DEF TypeOK
<1>10. Counted'
  <2>1. ASSUME NEW i \in 1..Len(log') PROVE log'[i].hash <= hashes + 1
    <3>1. CASE log'[i] = a
      BY <1>1, <3>1, LinesTyped
    <3>2. CASE i \in 1..Len(log) /\ log'[i].hash = log[i].hash
      <4>1. log[i].hash \in Nat /\ log[i].hash <= hashes /\ hashes \in Nat
        BY <3>2, LinesTyped
      <4> QED BY <3>2, <4>1
    <3> QED BY <1>5, <2>1, <3>1, <3>2
  <2>2. ASSUME NEW v \in Writers
        PROVE  /\ head'[v].count <= hashes + 1 /\ head'[v].last <= hashes + 1
               /\ \A i \in 1..Len(known'[v]) : known'[v][i].hash <= hashes + 1
    <3>1. CASE v = w
      <4>1. head'[w].count <= hashes + 1 /\ head'[w].last <= hashes + 1
        BY <1>8, LinesTyped
      <4>2. ASSUME NEW i \in 1..Len(known'[w]) PROVE known'[w][i].hash <= hashes + 1
        <5>1. CASE known'[w][i] = a
          BY <1>1, <5>1, LinesTyped
        <5>2. CASE i \in 1..Len(known[w]) /\ known'[w][i] = known[w][i]
          BY <5>2, LinesTyped
        <5> QED BY <1>7, <4>2, <5>1, <5>2
      <4> QED BY <3>1, <4>1, <4>2
    <3>2. CASE v # w
      <4>1. head'[v] = head[v] /\ known'[v] = known[v]
        BY <1>6, <1>8, <3>2
      <4>2. /\ head[v].count \in Nat /\ head[v].count <= hashes /\ hashes \in Nat
            /\ head[v].last \in Nat /\ head[v].last <= hashes
            /\ \A i \in 1..Len(known[v]) : known[v][i].hash \in Nat /\ known[v][i].hash <= hashes
        BY LinesTyped
      <4> QED BY <4>1, <4>2
    <3> QED BY <3>1, <3>2
  <2>3. Len(log') <= hashes + 1
    BY <1>4, LinesTyped, <1>3 DEF CInv, Counted
  <2>4. edits' = edits /\ faults' = faults
    BY DEF Record
  <2> QED BY <1>1, <1>4, <2>1, <2>2, <2>3, <2>4 DEF CInv, Counted
<1>11. Committed'
  <2>1. ASSUME NEW b \in Lines' PROVE b \in Lines \/ ~Whole(b) \/ b = a
    <3>1. CASE \E i \in 1..Len(log') : b = log'[i]
      BY <1>5, <3>1 DEF Lines
    <3>2. CASE \E v \in Writers : \E i \in 1..Len(known'[v]) : b = known'[v][i]
      <4>1. PICK v \in Writers : \E i \in 1..Len(known'[v]) : b = known'[v][i]
        BY <3>2
      <4>2. CASE v = w
        BY <1>7, <4>1, <4>2 DEF Lines
      <4>3. CASE v # w
        BY <1>6, <4>1, <4>3 DEF Lines
      <4> QED BY <4>2, <4>3
    <3> QED BY <2>1, <3>1, <3>2 DEF Lines
  <2> QED BY <1>1, <2>1, FreshCommits
<1>12. Heads'
  <2>1. ASSUME NEW v \in Writers
        PROVE  /\ Verifies(known'[v])
               /\ head'[v].count = Len(known'[v]) /\ head'[v].last = last_hash(known'[v])
    <3>1. CASE v = w
      BY <1>1, <1>6, <1>7, <1>8, <3>1 DEF CInv, Heads
    <3>2. CASE v # w
      BY <1>6, <1>8, <3>2 DEF CInv, Heads
    <3> QED BY <3>1, <3>2
  <2> QED BY <2>1 DEF Heads, Verifies, last_hash
<1> QED BY <1>9, <1>10, <1>11, <1>12 DEF CInv

(* A start that verified the trail.                                        *)
LEMMA RestartKeeps ==
    ASSUME CInv, UNCHANGED medium, NEW w \in Writers, Restart(w)
    PROVE  CInv'
<1>1. /\ log \in Seq(Line) /\ known \in [Writers -> Seq(Line)] /\ Len(log) \in Nat
      /\ head \in [Writers -> [count: 0..MaxHashes, last: 0..MaxHashes, up: BOOLEAN]]
  BY DEF CInv, TypeOK
<1>2. /\ log' = log /\ unended' = unended /\ hashes' = hashes /\ acked' = acked /\ Verifies(log)
      /\ head' = [head EXCEPT ![w] = [count |-> Len(log), last |-> last_hash(log), up |-> TRUE]]
      /\ known' = [known EXCEPT ![w] = log]
  BY DEF Restart
<1>3. Len(log) <= hashes /\ last_hash(log) \in Nat /\ last_hash(log) <= hashes
  BY <1>1, LinesTyped DEF last_hash, GENESIS
<1>4. Len(log) \in 0..MaxHashes /\ last_hash(log) \in 0..MaxHashes
  BY <1>1, <1>3, LinesTyped, Trails
<1>5. /\ head' \in [Writers -> [count: 0..MaxHashes, last: 0..MaxHashes, up: BOOLEAN]]
      /\ head'[w].count = Len(log) /\ head'[w].last = last_hash(log)
      /\ \A v \in Writers : v # w => head'[v] = head[v]
  BY <1>1, <1>2, <1>4
<1>6. /\ known' \in [Writers -> Seq(Line)] /\ known'[w] = log
      /\ \A v \in Writers : v # w => known'[v] = known[v]
  BY <1>1, <1>2
<1>7. TypeOK'
  BY <1>2, <1>5, <1>6 DEF CInv, TypeOK
<1>8. Counted'
  <2>1. ASSUME NEW v \in Writers
        PROVE  /\ head'[v].count <= hashes /\ head'[v].last <= hashes
               /\ \A i \in 1..Len(known'[v]) : known'[v][i].hash <= hashes
    BY <1>3, <1>5, <1>6 DEF CInv, Counted
  <2>2. edits' = edits /\ faults' = faults
    BY DEF Restart
  <2> QED BY <1>2, <2>1, <2>2 DEF CInv, Counted
<1>9. Committed'
  <2>1. \A b \in Lines' : b \in Lines
    BY <1>2, <1>6 DEF Lines
  <2> QED BY <2>1 DEF CInv, Committed, Whole
<1>10. Heads'
  <2>1. ASSUME NEW v \in Writers
        PROVE  /\ Verifies(known'[v])
               /\ head'[v].count = Len(known'[v]) /\ head'[v].last = last_hash(known'[v])
    BY <1>2, <1>5, <1>6 DEF CInv, Heads
  <2> QED BY <2>1 DEF Heads, Verifies, last_hash
<1> QED BY <1>7, <1>8, <1>9, <1>10 DEF CInv

(* Edits cannot give two lines one hash.                                   *)
LEMMA EditKeeps ==
    ASSUME CInv, UNCHANGED medium, Edit
    PROVE  CInv'
<1>1. /\ UNCHANGED <<head, known, acked, medium>>
      /\ log' \in Seq(Line) /\ Len(log') <= Len(log)
      /\ hashes' \in 0..MaxHashes /\ hashes <= hashes' /\ edits' \in Nat /\ faults' \in Nat
      /\ unended' \in BOOLEAN /\ (unended' => medium' = "file" /\ log' # <<>>)
  <2>1. /\ UNCHANGED <<head, known, acked, medium>> /\ edits' \in Nat /\ faults' \in Nat
        /\ unended' \in BOOLEAN /\ (unended' => medium' = "file" /\ log' # <<>>)
    BY DEF CInv, Edit, Counted
  <2> QED BY <2>1, Editing, Trails DEF CInv
<1>2. hashes \in Nat /\ hashes' \in Nat /\ Len(log) \in Nat /\ Len(log') \in Nat
  BY <1>1, LinesTyped, Trails DEF CInv, TypeOK
<1>3. TypeOK'
  BY <1>1 DEF CInv, TypeOK
<1>4. Heads'
  BY <1>1 DEF CInv, Heads
<1>5. CASE \A i \in 1..Len(log') : \E j \in 1..Len(log) :
              log'[i] = log[j] \/ (~Whole(log'[i]) /\ log'[i].hash = log[j].hash)
  <2>1. Counted'
    <3>1. ASSUME NEW i \in 1..Len(log') PROVE log'[i].hash <= hashes'
      <4>1. PICK j \in 1..Len(log) : log'[i] = log[j] \/ log'[i].hash = log[j].hash
        BY <1>5, <3>1
      <4>2. log[j].hash \in Nat /\ log[j].hash <= hashes
        BY LinesTyped
      <4> QED BY <1>1, <1>2, <4>1, <4>2
    <3>2. medium' \in DOMAIN Sharing /\ Len(log) <= hashes
      BY <1>1 DEF CInv, Counted
    <3>3. ASSUME NEW v \in Writers
          PROVE  /\ head'[v].count <= hashes' /\ head'[v].last <= hashes'
                 /\ \A i \in 1..Len(known'[v]) : known'[v][i].hash <= hashes'
      <4>1. /\ head[v].count \in Nat /\ head[v].count <= hashes
            /\ head[v].last \in Nat /\ head[v].last <= hashes
            /\ \A i \in 1..Len(known[v]) : known[v][i].hash \in Nat /\ known[v][i].hash <= hashes
        BY LinesTyped
      <4>2. head' = head /\ known' = known /\ hashes <= hashes'
        BY <1>1
      <4> HIDE DEF CInv
      <4> QED BY ONLY <1>2, <4>1, <4>2
    <3>4. /\ edits' \in Nat /\ faults' \in Nat /\ Len(log') <= hashes'
          /\ unended' => medium' = "file" /\ log' # <<>>
      BY <1>1, <1>2, <3>2
    <3> QED BY <3>1, <3>2, <3>3, <3>4, Zenon DEF Counted
  <2>2. ASSUME NEW b \in Lines' PROVE b \in Lines \/ ~Whole(b)
    <3>1. CASE \E i \in 1..Len(log') : b = log'[i]
      <4>1. PICK i \in 1..Len(log') : b = log'[i]
        BY <3>1
      <4>2. PICK j \in 1..Len(log) : log'[i] = log[j] \/ ~Whole(log'[i])
        BY <1>5, <4>1
      <4> QED BY <4>1, <4>2 DEF Lines
    <3>2. CASE \E w \in Writers : \E i \in 1..Len(known[w]) : b = known[w][i]
      BY <3>2 DEF Lines
    <3> QED BY <1>1, <2>2, <3>1, <3>2 DEF Lines
  <2>3. Committed'
    BY <2>2 DEF CInv, Committed, Whole
  <2> QED BY <1>3, <1>4, <2>1, <2>3 DEF CInv
<1>6. CASE /\ hashes' = hashes + 1
           /\ \E k \in 1..Len(log) :
                /\ log'[k].hash = hashes + 1
                /\ \A i \in 1..Len(log') : i # k => \E j \in 1..Len(log) : log'[i] = log[j]
  <2>1. PICK k \in 1..Len(log) :
                /\ log'[k].hash = hashes + 1
                /\ \A i \in 1..Len(log') : i # k => \E j \in 1..Len(log) : log'[i] = log[j]
    BY <1>6
  <2>2. Counted'
    <3>1. ASSUME NEW i \in 1..Len(log') PROVE log'[i].hash <= hashes'
      <4>1. CASE i = k
        BY <1>2, <1>6, <2>1, <4>1
      <4>2. CASE i # k
        <5>1. PICK j \in 1..Len(log) : log'[i] = log[j]
          BY <2>1, <3>1, <4>2
        <5>2. log[j].hash \in Nat /\ log[j].hash <= hashes
          BY LinesTyped
        <5> QED BY <1>2, <1>6, <5>1, <5>2
      <4> QED BY <4>1, <4>2
    <3>2. medium' \in DOMAIN Sharing /\ Len(log) <= hashes
      BY <1>1 DEF CInv, Counted
    <3>3. ASSUME NEW v \in Writers
          PROVE  /\ head'[v].count <= hashes' /\ head'[v].last <= hashes'
                 /\ \A i \in 1..Len(known'[v]) : known'[v][i].hash <= hashes'
      <4>1. /\ head[v].count \in Nat /\ head[v].count <= hashes
            /\ head[v].last \in Nat /\ head[v].last <= hashes
            /\ \A i \in 1..Len(known[v]) : known[v][i].hash \in Nat /\ known[v][i].hash <= hashes
        BY LinesTyped
      <4>2. head' = head /\ known' = known /\ hashes <= hashes'
        BY <1>1
      <4> HIDE DEF CInv
      <4> QED BY ONLY <1>2, <4>1, <4>2
    <3>4. /\ edits' \in Nat /\ faults' \in Nat /\ Len(log') <= hashes'
          /\ unended' => medium' = "file" /\ log' # <<>>
      BY <1>1, <1>2, <3>2
    <3> QED BY <3>1, <3>2, <3>3, <3>4, Zenon DEF Counted
  <2>3. \A b \in Lines' : b \in Lines \/ b = log'[k]
    <3>1. \A i \in 1..Len(log') : log'[i] \in Lines \/ log'[i] = log'[k]
      BY <2>1 DEF Lines
    <3>2. known' = known
      BY <1>1
    <3> QED BY <3>1, <3>2 DEF Lines
  <2>4. Committed'
    BY <2>1, <2>3, FreshCommits
  <2> QED BY <1>3, <1>4, <2>2, <2>4 DEF CInv
<1> QED BY <1>5, <1>6, Editing, Trails DEF CInv

(* The trail's types, the uniqueness of hashes, and each process's idea of *)
(* the head, in every reachable state (record, __init__, verify_chain).    *)
THEOREM TrailHeads == Spec => []CInv
<1>1. ASSUME Init PROVE CInv
  <2>1. /\ log = <<>> /\ ~unended /\ hashes = 0 /\ acked = {} /\ edits = 0 /\ faults = 0
        /\ medium \in DOMAIN Sharing
        /\ \A w \in Writers : known[w] = <<>> /\ head[w].count = 0 /\ head[w].last = 0
    BY <1>1 DEF Init, GENESIS
  <2>2. TypeOK
    <3>1. unended \in BOOLEAN
      BY <1>1, Zenon DEF Init
    <3>2. /\ log \in Seq(Line) /\ known \in [Writers -> Seq(Line)]
          /\ head \in [Writers -> [count: 0..MaxHashes, last: 0..MaxHashes, up: BOOLEAN]]
          /\ hashes \in 0..MaxHashes /\ acked \subseteq 1..MaxHashes
      BY <1>1, Trails DEF Init, GENESIS
    <3> QED BY <3>1, <3>2 DEF TypeOK
  <2>3. Len(log) = 0 /\ 1..0 = {}
    BY <2>1
  <2>4. ASSUME NEW w \in Writers PROVE Len(known[w]) = 0
    <3>1. known[w] = <<>>
      BY <2>1
    <3> QED BY <3>1
  <2>5. Counted
    BY <2>1, <2>3, <2>4 DEF Counted
  <2>6. Committed
    BY <2>3, <2>4 DEF Committed, Lines
  <2>7. ASSUME NEW w \in Writers
        PROVE  /\ Verifies(known[w])
               /\ head[w].count = Len(known[w]) /\ head[w].last = last_hash(known[w])
    <3>1. known[w] = <<>> /\ head[w].count = 0 /\ head[w].last = 0
      BY <2>1
    <3>2. Verifies(known[w])
      BY <2>3, <2>4 DEF Verifies
    <3> QED BY <2>4, <3>1, <3>2 DEF last_hash, GENESIS
  <2>8. Heads
    BY <2>7 DEF Heads
  <2> QED BY <2>2, <2>5, <2>6, <2>8 DEF CInv
<1>2. ASSUME CInv, [Next]_vars PROVE CInv'
  <2>1. CASE UNCHANGED vars
    <3>1. UNCHANGED <<medium, log, unended, head, hashes, known, acked, edits, faults>>
      BY <2>1 DEF vars
    <3>2. TypeOK' /\ Counted' /\ Heads'
      BY <1>2, <3>1 DEF CInv, TypeOK, Counted, Heads
    <3>3. Committed'
      BY <1>2, <3>1 DEF CInv, Committed, Lines
    <3> QED BY <3>2, <3>3 DEF CInv
  <2>2. CASE UNCHANGED medium /\ \E w \in Sharing[medium] :
                Record(w) \/ RecordRaises(w) \/ Crash(w) \/ Restart(w)
    <3>1. PICK w \in Sharing[medium] : Record(w) \/ RecordRaises(w) \/ Crash(w) \/ Restart(w)
      BY <2>2
    <3>2. w \in Writers
      BY <1>2, Trails DEF CInv, Counted
    <3>3. CASE RecordRaises(w) \/ Crash(w)
      <4>1. /\ Fault /\ UNCHANGED <<medium, known, acked, edits>>
            /\ \/ UNCHANGED <<log, unended, hashes>> /\ head' = [head EXCEPT ![w].up = FALSE]
               \/ /\ Hashes /\ (Stores(body(w), TRUE) \/ CutShort(body(w)))
                  /\ UNCHANGED head \/ head' = [head EXCEPT ![w].up = FALSE]
        BY <2>2, <3>3, Zenon DEF RecordRaises, Crash
      <4> QED BY <1>2, <3>2, <4>1, StoreKeeps, DeathKeeps
    <3> QED BY <1>2, <2>2, <3>1, <3>2, <3>3, RecordKeeps, RestartKeeps
  <2>3. CASE UNCHANGED medium /\ Edit
    BY <1>2, <2>3, EditKeeps
  <2> QED BY <1>2, <2>1, <2>2, <2>3 DEF Next
<1> QED BY <1>1, <1>2, PTL DEF Spec

(* A trail that verifies and ends at a running process's head is, line by  *)
(* line, what that process verified and recorded (verify_chain, record).   *)
THEOREM ChainVouches == Spec => []ChainVouchesForPrefix
  BY TrailHeads, CInvVouches, PTL

(* No step of the harness makes a broken trail verify (AuditLog.record,    *)
(* PostgresAuditSink.record, their starts).                                *)
THEOREM BreaksShow == Spec => BreaksStayVisible
<1>1. ASSUME CInv, [Next]_vars
      PROVE  [~Verifies(log) /\ edits' = edits => ~Verifies(log')]_vars
  <2> SUFFICES ASSUME Next, ~Verifies(log), edits' = edits PROVE ~Verifies(log')
    BY <1>1
  <2>1. ASSUME Edit PROVE FALSE
    BY <1>1, <2>1 DEF Edit, CInv, Counted
  <2>2. PICK w \in Sharing[medium] : Record(w) \/ RecordRaises(w) \/ Crash(w) \/ Restart(w)
    BY <2>1 DEF Next
  <2>3. w \in Writers
    BY <1>1, Trails DEF CInv, Counted
  <2>4. UNCHANGED log \/ (Hashes /\ (Stores(body(w), TRUE) \/ CutShort(body(w))))
    <3>1. Restart(w) => UNCHANGED log
      BY DEF Restart
    <3>2. Crash(w) => \/ UNCHANGED log
                      \/ Hashes /\ (Stores(body(w), TRUE) \/ CutShort(body(w)))
      BY DEF Crash
    <3> QED BY <2>2, <3>1, <3>2, Zenon DEF Record, RecordRaises
  <2>5. CASE UNCHANGED log
    BY <2>5 DEF Verifies
  <2>6. CASE Hashes /\ (Stores(body(w), TRUE) \/ CutShort(body(w)))
    <3>1. PICK a \in Line, newline \in BOOLEAN : Stores(a, newline)
      BY <1>1, <2>3, <2>6, FailedWrite
    <3>2. log \in Seq(Line) /\ (unended => log # <<>>)
      BY <1>1 DEF CInv, TypeOK, Counted
    <3>3. \/ log' = Append(log, a)
          \/ Len(log') = Len(log) /\ Len(log) \in 1..Len(log) /\ log'[Len(log)].state = "torn"
      BY <3>1, <3>2, Storing
    <3>4. CASE log' = Append(log, a)
      <4>1. Verifies(Append(log, a)) => Verifies(log)
        BY <3>2, PrefixVerifies
      <4> QED BY <3>4, <4>1
    <3>5. CASE Len(log') = Len(log) /\ Len(log) \in 1..Len(log) /\ log'[Len(log)].state = "torn"
      BY <3>5 DEF Verifies
    <3> QED BY <3>3, <3>4, <3>5
  <2> QED BY <2>4, <2>5, <2>6
<1> QED BY <1>1, TrailHeads, PTL DEF Spec, BreaksStayVisible

----------------------------------------------------------------------------
(* A running process that the store lets append stands at the trail's end: *)
(* on a table because another process's line would have taken its          *)
(* sequence number.                                                        *)
LEMMA AtEnd ==
    ASSUME KInv, edits = 0, ~Torn, NEW w \in Writers, head[w].up, ~Conflict(w)
    PROVE  log = known[w] /\ Verifies(log)
           /\ head[w].count = Len(log) /\ head[w].last = last_hash(log)
<1>1. /\ log \in Seq(Line) /\ known[w] \in Seq(Line) /\ Len(log) \in Nat /\ Len(known[w]) \in Nat
      /\ Verifies(known[w]) /\ head[w].count = Len(known[w]) /\ head[w].last = last_hash(known[w])
      /\ medium \in {"file", "table"}
  BY Trails DEF KInv, CInv, TypeOK, Heads, Counted
<1>2. /\ Len(known[w]) <= Len(log)
      /\ \A i \in 1..Len(known[w]) : log[i] = known[w][i]
      /\ medium = "file" => Len(known[w]) = Len(log)
      /\ Verifies(log)
  BY DEF KInv, Kept
<1>3. Len(known[w]) = Len(log)
  <2>1. ASSUME medium = "table", Len(known[w]) < Len(log) PROVE FALSE
    <3>1. Len(known[w]) + 1 \in 1..Len(log) /\ (Len(known[w]) + 1) - 1 = Len(known[w])
      BY <1>1, <2>1
    <3>2. log[Len(known[w]) + 1].sequence = head[w].count
      BY <1>1, <1>2, <3>1 DEF Verifies
    <3> QED BY <2>1, <3>1, <3>2 DEF Conflict
  <2> QED BY <1>1, <1>2, <2>1
<1>4. log = known[w]
  BY <1>1, <1>2, <1>3
<1> QED BY <1>1, <1>4

(* A write at the end of the trail that nobody touched, whether it         *)
(* returned, raised or was cut short.  What spoils a line is left alone.   *)
LEMMA WriteKeeps ==
    ASSUME Reliable, KInv, UNCHANGED <<medium, edits>>, NEW w \in Sharing[medium],
           Record(w) \/ RecordRaises(w) \/ Crash(w)
    PROVE  Kept'
<1>1. /\ w \in Writers /\ medium \in DOMAIN Sharing /\ log \in Seq(Line) /\ Len(log) \in Nat
      /\ known \in [Writers -> Seq(Line)] /\ (unended => log # <<>>)
      /\ head \in [Writers -> [count: 0..MaxHashes, last: 0..MaxHashes, up: BOOLEAN]]
  BY Trails DEF KInv, CInv, TypeOK, Counted
<1>2. \A v \in Writers : /\ v # w => head'[v] = head[v] /\ known'[v] = known[v]
                         /\ head'[v].up => head[v].up
  BY <1>1 DEF Record, RecordRaises, Crash
<1>3. \A v \in Writers : head'[v].up => v \in Sharing[medium']
  BY <1>2 DEF KInv, Kept
<1> SUFFICES ASSUME edits = 0, ~Torn'
    PROVE
         /\ Verifies(log')
         /\ \A v \in Writers : head'[v].up =>
              /\ Len(known'[v]) <= Len(log')
              /\ \A i \in 1..Len(known'[v]) : log'[i] = known'[v][i]
              /\ medium' = "file" => Len(known'[v]) = Len(log')
  BY <1>3 DEF Kept, Verifies, Torn
<1>4. CASE UNCHANGED log /\ Crash(w)
  <2>1. known' = known
    BY <1>4 DEF Crash
  <2>2. ~Torn
    BY <1>4 DEF Torn
  <2>3. Verifies(log')
    BY <1>4, <2>2 DEF KInv, Kept, Verifies
  <2> QED BY <1>2, <1>4, <2>1, <2>2, <2>3 DEF KInv, Kept
<1>5. CASE /\ head[w].up /\ ~Conflict(w) /\ Hashes
           /\ Stores(body(w), TRUE) \/ CutShort(body(w))
  <2>1. PICK a \in Line, newline \in BOOLEAN :
          /\ a.hash = hashes + 1 /\ a.state \in {"whole", "torn"}
          /\ a.sequence = head[w].count /\ a.prev_hash = head[w].last
          /\ newline => a = body(w)
          /\ newline \/ medium = "file"
          /\ Stores(a, newline)
    BY <1>1, <1>5, FailedWrite DEF KInv
  <2>2. log' = Append(log, a)
    BY <1>1, <2>1, Storing DEF Torn
  <2>3. /\ Len(log') = Len(log) + 1 /\ log'[Len(log) + 1] = a
        /\ \A i \in 1..Len(log) : log'[i] = log[i] /\ i \in 1..Len(log')
    BY <1>1, <2>1, <2>2, Appended
  <2>4. ~Torn /\ a.state = "whole"
    <3>1. Len(log) + 1 \in 1..Len(log')
      BY <1>1, <2>3
    <3> QED BY <2>1, <2>3, <3>1 DEF Torn
  <2>5. /\ log = known[w] /\ Verifies(log)
        /\ head[w].count = Len(log) /\ head[w].last = last_hash(log)
    BY <1>1, <1>5, <2>4, AtEnd
  <2>6. Verifies(log')
    <3>1. Verifies(Append(log, a))
      BY <1>1, <2>1, <2>4, <2>5, ExtendedVerifies DEF Whole
    <3> QED BY <2>2, <3>1
  <2>7. ASSUME NEW v \in Writers, v # w, head'[v].up
        PROVE  /\ medium # "file" /\ Len(known'[v]) <= Len(log) /\ known'[v] \in Seq(Line)
               /\ \A i \in 1..Len(known'[v]) : log[i] = known'[v][i]
    <3>1. v \in Sharing[medium] /\ head[v].up /\ known'[v] = known[v] /\ known[v] \in Seq(Line)
      BY <1>1, <1>2, <2>7 DEF KInv, Kept
    <3>2. medium # "file"
      BY <1>1, <2>7, <3>1 DEF Reliable
    <3> QED BY <2>4, <3>1, <3>2 DEF KInv, Kept
  <2>8. ASSUME head'[w].up
        PROVE  /\ Len(known'[w]) <= Len(log')
               /\ \A i \in 1..Len(known'[w]) : log'[i] = known'[w][i]
               /\ medium' = "file" => Len(known'[w]) = Len(log')
    <3>1. CASE Record(w)
      <4>1. known' = [known EXCEPT ![w] = Append(@, body(w))] /\ Stores(body(w), TRUE)
        BY <3>1 DEF Record
      <4>2. known'[w] = Append(log, body(w))
        BY <1>1, <2>5, <4>1
      <4>3. log' = Append(log, body(w))
        <5>1. body(w) \in Line
          BY <1>1, <1>5, BodyFits DEF KInv
        <5> QED BY <1>1, <4>1, <5>1, Storing DEF Torn
      <4> QED BY <1>1, <2>3, <4>2, <4>3
    <3>2. CASE RecordRaises(w)
      <4>1. known' = known /\ medium # "file"
        BY <1>1, <3>2 DEF RecordRaises, Reliable
      <4> QED BY <1>1, <2>3, <2>5, <4>1
    <3>3. CASE Crash(w)
      <4>1. ~head'[w].up
        BY <1>1, <3>3 DEF Crash
      <4> QED BY <2>8, <4>1
    <3> QED BY <3>1, <3>2, <3>3
  <2>9. ASSUME NEW v \in Writers, head'[v].up
        PROVE  /\ Len(known'[v]) <= Len(log')
               /\ \A i \in 1..Len(known'[v]) : log'[i] = known'[v][i]
               /\ medium' = "file" => Len(known'[v]) = Len(log')
    <3>1. CASE v = w
      BY <2>8, <2>9, <3>1
    <3>2. CASE v # w
      BY <1>1, <2>3, <2>7, <2>9, <3>2
    <3> QED BY <3>1, <3>2
  <2> QED BY <2>6, <2>9
<1> QED BY <1>4, <1>5, Zenon DEF Record, RecordRaises, Crash

(* A trail that nobody touched is one chain that every process agrees on,  *)
(* in every reachable state (record, __init__).                            *)
THEOREM TrailKept == Reliable => (Spec => []KInv)
<1> SUFFICES ASSUME Reliable PROVE Spec => []KInv
  OBVIOUS
<1>1. ASSUME Init PROVE Kept
  <2>1. /\ Len(log) = 0 /\ acked = {}
        /\ \A w \in Writers : Len(known[w]) = 0 /\ (head[w].up => w \in Sharing[medium])
    BY <1>1 DEF Init
  <2> QED BY <2>1 DEF Kept, Verifies
<1>2. ASSUME KInv, [Next]_vars PROVE Kept'
  <2>1. CASE UNCHANGED vars
    <3>1. UNCHANGED <<medium, log, head, known, acked, edits>>
      BY <2>1 DEF vars
    <3> QED BY <1>2, <3>1 DEF KInv, Kept, Verifies, Torn
  <2>2. CASE UNCHANGED medium /\ Edit
    <3>1. edits' # 0 /\ UNCHANGED head
      BY <1>2, <2>2 DEF Edit, KInv, CInv, Counted
    <3> QED BY <1>2, <2>2, <3>1 DEF KInv, Kept
  <2>3. CASE UNCHANGED medium /\ \E w \in Sharing[medium] :
                Record(w) \/ RecordRaises(w) \/ Crash(w) \/ Restart(w)
    <3>1. PICK w \in Sharing[medium] : Record(w) \/ RecordRaises(w) \/ Crash(w) \/ Restart(w)
      BY <2>3
    <3>2. CASE Record(w) \/ RecordRaises(w) \/ Crash(w)
      <4>1. UNCHANGED <<medium, edits>>
        BY <2>3, <3>2 DEF Record, RecordRaises, Crash
      <4> QED BY <1>2, <3>2, <4>1, WriteKeeps
    <3>3. CASE Restart(w)
      <4>1. /\ w \in Writers /\ log \in Seq(Line) /\ Len(log) \in Nat
            /\ known \in [Writers -> Seq(Line)]
            /\ head \in [Writers -> [count: 0..MaxHashes, last: 0..MaxHashes, up: BOOLEAN]]
        BY <1>2, Trails DEF KInv, CInv, TypeOK, Counted
      <4>2. /\ UNCHANGED <<medium, log, acked, edits>>
            /\ known'[w] = log
            /\ \A v \in Writers : v # w => head'[v] = head[v] /\ known'[v] = known[v]
        BY <2>3, <3>3, <4>1 DEF Restart
      <4>3. ASSUME NEW v \in Writers, head'[v].up PROVE v \in Sharing[medium']
        BY <1>2, <4>2, <4>3 DEF KInv, Kept
      <4>4. ASSUME edits = 0, ~Torn, NEW v \in Writers, head'[v].up
            PROVE  /\ Len(known'[v]) <= Len(log')
                   /\ \A i \in 1..Len(known'[v]) : log'[i] = known'[v][i]
                   /\ medium' = "file" => Len(known'[v]) = Len(log')
        <5>1. CASE v = w
          BY <4>1, <4>2, <5>1
        <5>2. CASE v # w
          BY <1>2, <4>2, <4>4, <5>2 DEF KInv, Kept
        <5> QED BY <5>1, <5>2
      <4>5. Verifies(log)
        BY <3>3 DEF Restart
      <4> QED BY <4>2, <4>3, <4>4, <4>5 DEF Kept, Verifies, Torn
    <3> QED BY <3>1, <3>2, <3>3
  <2> QED BY <1>2, <2>1, <2>2, <2>3 DEF Next
<1> QED BY <1>1, <1>2, TrailHeads, PTL DEF Spec, KInv

(* A trail that nobody touched verifies, unless a crash left a line of it  *)
(* unreadable (AuditLog.record, PostgresAuditSink.record, __init__).       *)
THEOREM TrailVerifies == Reliable => (Spec => []VerifiesUnlessTouched)
<1>1. KInv => VerifiesUnlessTouched
  BY DEF KInv, Kept, VerifiesUnlessTouched
<1> QED BY <1>1, TrailKept, PTL

----------------------------------------------------------------------------
(* The losses so far, and the next record's if the last line lacks its     *)
(* newline, are no more than the failures; the line that lacks it was not  *)
(* acknowledged.                                                           *)
Spoiling == IF unended THEN 1 ELSE 0
Failures == IF medium = "file" THEN faults ELSE 0
Losses ==
    /\ IsFiniteSet(acked)
    /\ \A x \in acked : x <= hashes
    /\ edits = 0 =>
         /\ unended => log[Len(log)].hash \notin acked
         /\ Cardinality(Lost) + Spoiling <= Failures

LInv == CInv /\ Losses

(* The losses are a finite number.                                         *)
LEMMA LostCounted ==
    ASSUME IsFiniteSet(acked)
    PROVE  IsFiniteSet(Lost) /\ Cardinality(Lost) \in Nat
<1>1. Lost \subseteq acked
  BY DEF Lost
<1> QED BY <1>1, FS_Subset, FS_CardinalityType

(* Storing a line takes away no acknowledged record.                       *)
LEMMA StoringLosesNone ==
    ASSUME LInv, edits = 0, NEW a \in Line, NEW newline \in BOOLEAN, Stores(a, newline)
    PROVE  \A x \in acked : Stored(x) => Stored(x)'
<1>1. log \in Seq(Line) /\ Len(log) \in Nat /\ (unended => log # <<>>)
  BY DEF LInv, CInv, TypeOK, Counted
<1>2. SUFFICES ASSUME NEW x \in acked, NEW i \in 1..Len(log), log[i].hash = x, log[i].state = "whole"
               PROVE  \E j \in 1..Len(log') : log'[j].hash = x /\ log'[j].state = "whole"
  BY DEF Stored
<1>3. CASE ~unended /\ log' = Append(log, a)
  BY <1>1, <1>2, <1>3, Appended
<1>4. CASE /\ unended /\ Len(log') = Len(log) /\ Len(log) \in 1..Len(log)
           /\ \A j \in 1..Len(log) : j # Len(log) => log'[j] = log[j]
  <2>1. i # Len(log)
    BY <1>2, <1>4 DEF LInv, Losses
  <2> QED BY <1>2, <1>4, <2>1
<1> QED BY <1>1, <1>3, <1>4, Storing

(* A failed write costs what its failure adds.                             *)
LEMMA FailureCosts ==
    ASSUME LInv, NEW w \in Writers, UNCHANGED <<medium, acked, edits>>, Fault,
           \/ UNCHANGED <<log, unended, hashes>>
           \/ Hashes /\ (Stores(body(w), TRUE) \/ CutShort(body(w)))
    PROVE  Losses'
<1>1. /\ hashes \in Nat /\ (hashes' = hashes \/ hashes' = hashes + 1)
      /\ faults \in Nat /\ faults' = faults + 1
      /\ IsFiniteSet(acked) /\ \A x \in acked : x \in Nat /\ x <= hashes
  <2>1. /\ hashes \in Nat /\ acked \subseteq 1..MaxHashes /\ MaxHashes \in Nat
        /\ IsFiniteSet(acked) /\ (\A x \in acked : x <= hashes) /\ faults \in Nat
    BY Trails, LinesTyped DEF LInv, Losses, CInv, TypeOK, Counted
  <2>2. \A x \in acked : x \in Nat
    BY <2>1
  <2> QED BY <2>1, <2>2 DEF Hashes, Fault
<1>2. IsFiniteSet(acked') /\ \A x \in acked' : x <= hashes'
  BY <1>1
<1> SUFFICES ASSUME edits = 0
             PROVE  /\ unended' => log'[Len(log')].hash \notin acked
                    /\ Cardinality(Lost)' + Spoiling' <= Failures'
  BY <1>2 DEF Losses
<1>3. /\ unended => log[Len(log)].hash \notin acked
      /\ Cardinality(Lost) + Spoiling <= Failures /\ Cardinality(Lost) \in Nat
  BY <1>1, LostCounted DEF LInv, Losses
<1>4. CASE UNCHANGED <<log, unended, hashes>>
  <2>1. Lost' = Lost
    BY <1>4 DEF Lost, Stored
  <2> QED BY <1>1, <1>3, <1>4, <2>1 DEF Spoiling, Failures
<1>5. CASE Hashes /\ (Stores(body(w), TRUE) \/ CutShort(body(w)))
  <2>1. PICK a \in Line, newline \in BOOLEAN :
          a.hash = hashes + 1 /\ (newline \/ medium = "file") /\ Stores(a, newline)
    BY <1>5, FailedWrite DEF LInv
  <2>2. log \in Seq(Line) /\ Len(log) \in Nat /\ (unended => log # <<>>) /\ unended \in BOOLEAN
    BY DEF LInv, CInv, TypeOK, Counted
  <2>3. /\ log' \in Seq(Line)
        /\ \/ ~unended /\ log' = Append(log, a)
           \/ unended /\ Len(log') = Len(log) /\ log'[Len(log)].hash = log[Len(log)].hash
    BY <2>1, <2>2, Storing
  <2>4. log'[Len(log')].hash \notin acked
    <3>1. CASE ~unended /\ log' = Append(log, a)
      <4>1. log'[Len(log')] = a
        BY <2>1, <2>2, <3>1, Appended
      <4> QED BY <1>1, <2>1, <4>1
    <3>2. CASE unended /\ Len(log') = Len(log) /\ log'[Len(log)].hash = log[Len(log)].hash
      BY <1>3, <3>2
    <3> QED BY <2>3, <3>1, <3>2
  <2>5. Lost' \subseteq Lost
    BY <2>1, StoringLosesNone DEF Lost
  <2>6. Cardinality(Lost') \in Nat /\ Cardinality(Lost') <= Cardinality(Lost)
    BY <1>1, <2>5, LostCounted, FS_Subset, FS_CardinalityType
  <2>7. unended' = ~newline
    BY <2>1 DEF Stores
  <2>8. Spoiling \in Nat /\ Spoiling' = (IF newline THEN 0 ELSE 1)
    BY <2>7 DEF Spoiling
  <2>9. /\ medium = "file" => Failures = faults /\ Failures' = faults + 1
        /\ medium # "file" => Failures = 0 /\ Failures' = 0
    BY <1>1 DEF Failures
  <2>10. Cardinality(Lost') + Spoiling' <= Failures'
    BY <1>1, <1>3, <2>1, <2>6, <2>8, <2>9
  <2> QED BY <2>4, <2>10
<1> QED BY <1>4, <1>5

(* An acknowledged record is in the trail, or lost to the line it follows, *)
(* which it ends.                                                          *)
LEMMA RecordCosts ==
    ASSUME LInv, NEW w \in Writers, UNCHANGED medium, Record(w)
    PROVE  Losses'
<1>1. /\ hashes \in Nat /\ hashes' = hashes + 1 /\ body(w) \in Line
      /\ body(w).hash = hashes + 1 /\ body(w).state = "whole"
      /\ UNCHANGED <<faults, edits>> /\ acked' = acked \cup {hashes + 1}
      /\ Stores(body(w), TRUE)
      /\ IsFiniteSet(acked) /\ \A x \in acked : x \in Nat /\ x <= hashes
  <2>1. CInv /\ Hashes
    BY DEF LInv, Record
  <2>2. body(w) \in Line /\ body(w).hash = hashes + 1 /\ body(w).state = "whole"
    BY <2>1, BodyFits DEF Whole
  <2>3. /\ hashes \in Nat /\ acked \subseteq 1..MaxHashes /\ MaxHashes \in Nat
        /\ IsFiniteSet(acked) /\ \A x \in acked : x <= hashes
    BY Trails, LinesTyped DEF LInv, Losses, CInv, TypeOK
  <2>4. \A x \in acked : x \in Nat
    BY <2>3
  <2>5. /\ hashes' = hashes + 1 /\ UNCHANGED <<faults, edits>> /\ acked' = acked \cup {hashes + 1}
        /\ Stores(body(w), TRUE)
    BY DEF Record, Hashes
  <2> QED BY <2>2, <2>3, <2>4, <2>5
<1>2. IsFiniteSet(acked') /\ (\A x \in acked' : x <= hashes') /\ unended' = FALSE
  <2>1. IsFiniteSet(acked')
    BY <1>1, FS_AddElement
  <2>2. \A x \in acked' : x <= hashes'
    BY <1>1
  <2>3. unended' = FALSE
    BY <1>1, Zenon DEF Stores
  <2> QED BY <2>1, <2>2, <2>3
<1> SUFFICES ASSUME edits = 0 PROVE Cardinality(Lost)' + Spoiling' <= Failures'
  BY <1>1, <1>2 DEF Losses
<1>3. /\ Cardinality(Lost) + Spoiling <= Failures /\ Cardinality(Lost) \in Nat
      /\ IsFiniteSet(Lost)
  BY <1>1, LostCounted DEF LInv, Losses
<1>4. \A x \in acked : Stored(x) => Stored(x)'
  BY <1>1, StoringLosesNone
<1>5. log \in Seq(Line) /\ Len(log) \in Nat /\ (unended => log # <<>>) /\ unended \in BOOLEAN
  BY DEF LInv, CInv, TypeOK, Counted
<1>8. /\ Spoiling' = 0 /\ Failures' = Failures /\ Failures \in Nat
      /\ Spoiling = IF unended THEN 1 ELSE 0
  <2>1. faults \in Nat
    BY DEF LInv, CInv, Counted
  <2> QED BY <1>1, <1>2, <2>1 DEF Spoiling, Failures
<1>6. CASE unended
  <2>1. Lost' \subseteq Lost \cup {hashes + 1}
    BY <1>1, <1>4 DEF Lost
  <2>2. IsFiniteSet(Lost \cup {hashes + 1}) /\ Cardinality(Lost \cup {hashes + 1}) <= Cardinality(Lost) + 1
    BY <1>3, FS_AddElement
  <2>3. Cardinality(Lost') \in Nat /\ Cardinality(Lost') <= Cardinality(Lost) + 1
    BY <1>3, <2>1, <2>2, FS_Subset, FS_CardinalityType
  <2> QED BY <1>3, <1>6, <1>8, <2>3
<1>7. CASE ~unended
  <2>1. log' = Append(log, body(w))
    BY <1>1, <1>5, <1>7, Storing
  <2>2. log'[Len(log) + 1] = body(w) /\ Len(log) + 1 \in 1..Len(log')
    BY <1>1, <1>5, <2>1, Appended
  <2>6. PICK x : x = hashes + 1
    OBVIOUS
  <2>3. Stored(x)'
    BY <1>1, <2>2, <2>6 DEF Stored
  <2>4. Lost' \subseteq Lost
    BY <1>1, <1>4, <2>3, <2>6 DEF Lost
  <2>5. Cardinality(Lost') \in Nat /\ Cardinality(Lost') <= Cardinality(Lost)
    BY <1>3, <2>4, FS_Subset, FS_CardinalityType
  <2> QED BY <1>3, <1>7, <1>8, <2>5
<1> QED BY <1>5, <1>6, <1>7

(* Until somebody edits the trail, each failed write and each crash costs  *)
(* a file at most one acknowledged record, and a table none, whatever      *)
(* number of processes appends to it (record, __init__).                   *)
THEOREM FailuresCostLittle == Spec => []FailuresCostOneRecord
<1>1. ASSUME Init PROVE Losses
  <2>1. acked = {} /\ faults = 0 /\ ~unended
    BY <1>1 DEF Init
  <2>2. Lost = {}
    BY <2>1 DEF Lost
  <2>3. Cardinality(Lost) = 0 /\ IsFiniteSet(acked)
    BY <2>1, <2>2, FS_EmptySet
  <2> QED BY <2>1, <2>3 DEF Losses, Spoiling, Failures
<1>2. ASSUME LInv, [Next]_vars PROVE Losses'
  <2>1. CASE UNCHANGED vars
    <3>1. UNCHANGED <<medium, log, unended, hashes, acked, edits, faults>>
      BY <2>1 DEF vars
    <3>2. Lost' = Lost
      BY <3>1 DEF Lost, Stored
    <3> QED BY <1>2, <3>1, <3>2 DEF LInv, Losses, Spoiling, Failures
  <2>2. CASE UNCHANGED medium /\ Edit
    <3>1. edits' # 0 /\ acked' = acked /\ hashes \in Nat /\ hashes' \in Nat /\ hashes <= hashes'
      <4>1. TypeOK /\ Counted
        BY <1>2 DEF LInv, CInv
      <4>2. hashes' \in 0..MaxHashes /\ hashes <= hashes'
        BY <2>2, <4>1, Editing, Trails
      <4> QED BY <2>2, <4>1, <4>2, Trails DEF Edit, TypeOK, Counted
    <3>2. \A x \in acked : x \in Nat /\ x <= hashes
      BY <1>2, Trails DEF LInv, Losses, CInv, TypeOK
    <3> QED BY <1>2, <3>1, <3>2 DEF LInv, Losses
  <2>3. CASE UNCHANGED medium /\ \E w \in Sharing[medium] :
                Record(w) \/ RecordRaises(w) \/ Crash(w) \/ Restart(w)
    <3>1. PICK w \in Sharing[medium] : Record(w) \/ RecordRaises(w) \/ Crash(w) \/ Restart(w)
      BY <2>3
    <3>2. w \in Writers
      BY <1>2, Trails DEF LInv, CInv, Counted
    <3>3. CASE Record(w)
      BY <1>2, <2>3, <3>2, <3>3, RecordCosts
    <3>4. CASE RecordRaises(w) \/ Crash(w)
      <4>1. /\ UNCHANGED <<medium, acked, edits>> /\ Fault
            /\ \/ UNCHANGED <<log, unended, hashes>>
               \/ Hashes /\ (Stores(body(w), TRUE) \/ CutShort(body(w)))
        BY <2>3, <3>4, Zenon DEF RecordRaises, Crash
      <4> QED BY <1>2, <3>2, <4>1, FailureCosts
    <3>5. CASE Restart(w)
      <4>1. UNCHANGED <<medium, log, unended, hashes, acked, edits, faults>>
        BY <2>3, <3>5 DEF Restart
      <4>2. Lost' = Lost
        BY <4>1 DEF Lost, Stored
      <4> QED BY <1>2, <4>1, <4>2 DEF LInv, Losses, Spoiling, Failures
    <3> QED BY <3>1, <3>3, <3>4, <3>5
  <2> QED BY <1>2, <2>1, <2>2, <2>3 DEF Next
<1>3. LInv => FailuresCostOneRecord
  <2> SUFFICES ASSUME LInv, edits = 0 PROVE Cardinality(Lost) <= Failures
    BY DEF FailuresCostOneRecord, Failures
  <2>1. Cardinality(Lost) \in Nat /\ faults \in Nat /\ Cardinality(Lost) + Spoiling <= Failures
    BY LostCounted DEF LInv, Losses, CInv, Counted
  <2> QED BY <2>1 DEF Spoiling, Failures
<1> QED BY <1>1, <1>2, <1>3, TrailHeads, PTL DEF Spec, LInv

----------------------------------------------------------------------------
(* The browser's pass: a recursive function, which exists, and what it has *)
(* found after each line, both by the least line at which it would fail.   *)

Unread == [ok |-> TRUE, bad |-> -1, prev |-> GENESIS, total |-> 0]
Pass(l, m, v) == v = [n \in 0..m |-> IF n = 0 THEN Unread ELSE view_line(v[n - 1], l[n])]

(* There is a pass over any number of lines.                               *)
LEMMA PassExists == \A l : \A m \in Nat : \E v : Pass(l, m, v)
<1>1. SUFFICES ASSUME NEW l, NEW k \in Nat, ~\E v : Pass(l, k, v) PROVE FALSE
  OBVIOUS
<1> DEFINE S == {n \in Nat : ~\E v : Pass(l, n, v)}
<1>2. PICK m \in S : \A n \in S : m <= n
  <2>1. S \in SUBSET Nat /\ S # {}
    BY <1>1
  <2> HIDE DEF S
  <2> QED BY <2>1, Least
<1>3. m # 0
  <2>1. Pass(l, 0, [n \in 0..0 |-> Unread])
    BY DEF Pass
  <2> QED BY <1>2, <2>1
<1>4. m - 1 \in Nat /\ m - 1 \notin S
  BY <1>2, <1>3
<1>5. PICK v : Pass(l, m - 1, v)
  BY <1>4
<1>6. PICK w : w = [n \in 0..m |-> IF n = m THEN view_line(v[m - 1], l[m]) ELSE v[n]]
  OBVIOUS
<1>7. ASSUME NEW n \in 0..m PROVE w[n] = IF n = 0 THEN Unread ELSE view_line(w[n - 1], l[n])
  <2>1. CASE n = 0
    <3>1. w[n] = v[0] /\ 0 \in 0..(m - 1)
      BY <1>2, <1>3, <1>6, <2>1
    <3>2. v[0] = Unread
      BY <1>5, <3>1 DEF Pass
    <3> QED BY <2>1, <3>1, <3>2
  <2>2. CASE n # 0
    <3>1. n - 1 \in 0..(m - 1) /\ n - 1 # m /\ n - 1 \in 0..m
      BY <1>2, <1>7, <2>2
    <3>2. w[n - 1] = v[n - 1]
      BY <1>6, <3>1
    <3>3. CASE n = m
      BY <1>6, <2>2, <3>2, <3>3
    <3>4. CASE n # m
      <4>1. w[n] = v[n] /\ n \in 0..(m - 1)
        BY <1>2, <1>6, <1>7, <3>4
      <4>2. v[n] = view_line(v[n - 1], l[n])
        BY <1>5, <2>2, <4>1 DEF Pass
      <4> QED BY <2>2, <3>2, <4>1, <4>2
    <3> QED BY <3>3, <3>4
  <2> QED BY <2>1, <2>2
<1>8. Pass(l, m, w)
  BY <1>6, <1>7 DEF Pass
<1> QED BY <1>2, <1>8

(* audit_view is the end of one.                                           *)
LEMMA ViewIsAPass ==
    ASSUME NEW l, Len(l) \in Nat
    PROVE  \E v : Pass(l, Len(l), v) /\ audit_view(l) = v[Len(l)]
<1>1. PICK v : v = CHOOSE u : Pass(l, Len(l), u)
  OBVIOUS
<1>2. Pass(l, Len(l), v)
  BY <1>1, PassExists, Zenon
<1>3. audit_view(l) = v[Len(l)]
  BY <1>1 DEF audit_view, Pass, Unread
<1> QED BY <1>2, <1>3

(* The first n lines verify.                                               *)
Good(l, n) ==
    \A i \in 1..n :
        /\ l[i].state = "whole"
        /\ l[i].sequence = i - 1
        /\ l[i].prev_hash = IF i = 1 THEN GENESIS ELSE l[i - 1].hash

(* That is to say, the trail cut off after them does.                      *)
LEMMA GoodVerifies ==
    ASSUME NEW l \in Seq(Line), NEW n \in 0..Len(l)
    PROVE  Verifies(SubSeq(l, 1, n)) <=> Good(l, n)
<1>1. Len(l) \in Nat
  BY LenProperties
<1>2. PICK s : s = SubSeq(l, 1, n)
  OBVIOUS
<1>3. Len(s) = n /\ \A i \in 1..n : s[i] = l[i]
  <2>1. \A i \in 1..n : l[i] \in Line
    BY <1>1, LenProperties
  <2> QED BY <1>1, <1>2, <2>1, SubSeqProperties
<1>4. \A i \in 1..n : i # 1 => i - 1 \in 1..n
  BY <1>1
<1> QED BY <1>2, <1>3, <1>4 DEF Verifies, Good

(* What the pass has found after n lines.                                  *)
Found(l, v, n) ==
    /\ v[n].total = n
    /\ v[n].ok \in BOOLEAN /\ (v[n].ok <=> Good(l, n))
    /\ v[n].ok => v[n].prev = IF n = 0 THEN GENESIS ELSE l[n].hash
    /\ ~v[n].ok => v[n].bad \in 0..(n - 1) /\ Good(l, v[n].bad) /\ ~Good(l, v[n].bad + 1)

(* One more line verifies exactly when it continues what was read.         *)
LEMMA GoodGrows ==
    ASSUME NEW l, NEW n \in Nat, n # 0
    PROVE  Good(l, n) <=> /\ Good(l, n - 1)
                          /\ l[n].state = "whole" /\ l[n].sequence = n - 1
                          /\ l[n].prev_hash = IF n = 1 THEN GENESIS ELSE l[n - 1].hash
<1>1. 1..n = (1..(n - 1)) \cup {n}
  OBVIOUS
<1> QED BY <1>1, Zenon DEF Good

(* By the least line after which the pass would be wrong.                  *)
LEMMA PassFinds ==
    ASSUME NEW l, Len(l) \in Nat, NEW v, Pass(l, Len(l), v), NEW n \in 0..Len(l)
    PROVE  Found(l, v, n)
<1> DEFINE S == {k \in 0..Len(l) : ~Found(l, v, k)}
<1>1. SUFFICES ASSUME S # {} PROVE FALSE
  OBVIOUS
<1>2. PICK m \in S : \A k \in S : m <= k
  <2>1. S \in SUBSET Nat
    OBVIOUS
  <2> HIDE DEF S
  <2> QED BY <1>1, <2>1, Least
<1>3. m # 0
  <2>1. v[0] = Unread
    BY DEF Pass
  <2>2. Found(l, v, 0)
    BY <2>1 DEF Found, Good, Unread
  <2> QED BY <1>2, <2>2
<1>4. m \in 1..Len(l) /\ m - 1 \in 0..Len(l) /\ m - 1 \notin S
  BY <1>2, <1>3
<1>5. Found(l, v, m - 1)
  BY <1>4
<1>6. v[m] = view_line(v[m - 1], l[m])
  BY <1>3, <1>4 DEF Pass
<1>7. Good(l, m) <=> /\ Good(l, m - 1)
                     /\ l[m].state = "whole" /\ l[m].sequence = m - 1
                     /\ l[m].prev_hash = IF m = 1 THEN GENESIS ELSE l[m - 1].hash
  BY <1>3, <1>4, GoodGrows
<1>8. PICK b : b = v[m - 1]
  OBVIOUS
<1>9. /\ b.total = m - 1
      /\ b.ok \in BOOLEAN /\ (b.ok <=> Good(l, m - 1))
      /\ b.ok => b.prev = IF m = 1 THEN GENESIS ELSE l[m - 1].hash
      /\ ~b.ok => b.bad \in 0..(m - 2) /\ Good(l, b.bad) /\ ~Good(l, b.bad + 1)
  BY <1>4, <1>5, <1>8 DEF Found
<1>10. b.ok => (Sound(b, l[m]) <=> Good(l, m))
  BY <1>7, <1>9 DEF Sound
<1>11. /\ v[m].total = m
       /\ v[m].ok = (b.ok /\ Sound(b, l[m]))
       /\ v[m].bad = IF b.ok /\ ~Sound(b, l[m]) THEN b.total ELSE b.bad
       /\ v[m].prev = IF b.ok /\ l[m].state # "torn" THEN l[m].hash ELSE b.prev
  BY <1>4, <1>6, <1>8, <1>9 DEF view_line
<1>12. v[m].ok \in BOOLEAN /\ (v[m].ok <=> Good(l, m))
  BY <1>7, <1>9, <1>10, <1>11
<1>13. v[m].ok => v[m].prev = l[m].hash
  BY <1>11 DEF Sound
<1>14. ~v[m].ok => v[m].bad \in 0..(m - 1) /\ Good(l, v[m].bad) /\ ~Good(l, v[m].bad + 1)
  <2>1. CASE b.ok
    <3>1. m - 1 \in 0..(m - 1) /\ (m - 1) + 1 = m
      BY <1>4
    <3>2. Sound(b, l[m]) \/ v[m].bad = m - 1
      BY <1>9, <1>11, <2>1
    <3>3. Good(l, m - 1)
      BY <1>9, <2>1
    <3>4. Sound(b, l[m]) => v[m].ok
      BY <1>11, <2>1
    <3>5. ~v[m].ok => ~Good(l, m)
      BY <1>12
    <3> QED BY <3>1, <3>2, <3>3, <3>4, <3>5
  <2>2. CASE ~b.ok
    BY <1>4, <1>9, <1>11, <2>2
  <2> QED BY <2>1, <2>2
<1>15. Found(l, v, m)
  BY <1>3, <1>11, <1>12, <1>13, <1>14 DEF Found
<1> QED BY <1>2, <1>15

(* The browser's one pass says of every trail the system can leave what    *)
(* verify_chain says of it, and blames the line that ends the longest      *)
(* beginning that verifies (audit_view, verify_chain).                     *)
THEOREM BrowserIsRight == Spec => []BrowserAgrees
<1>1. TypeOK => BrowserAgrees
  <2> SUFFICES ASSUME TypeOK PROVE BrowserAgrees
    OBVIOUS
  <2>1. log \in Seq(Line) /\ Len(log) \in Nat
    BY LenProperties DEF TypeOK
  <2>2. PICK v : Pass(log, Len(log), v) /\ audit_view(log) = v[Len(log)]
    BY <2>1, ViewIsAPass
  <2>3. Len(log) \in 0..Len(log)
    BY <2>1
  <2>4. Found(log, v, Len(log))
    BY <2>1, <2>2, <2>3, PassFinds
  <2>5. Verifies(log) <=> Good(log, Len(log))
    BY DEF Verifies, Good
  <2>6. ASSUME ~audit_view(log).ok
        PROVE  /\ audit_view(log).bad \in 0..(Len(log) - 1)
               /\ Verifies(SubSeq(log, 1, audit_view(log).bad))
               /\ ~Verifies(SubSeq(log, 1, audit_view(log).bad + 1))
    <3>1. PICK b : b = audit_view(log).bad
      OBVIOUS
    <3>2. b \in 0..(Len(log) - 1) /\ Good(log, b) /\ ~Good(log, b + 1)
      BY <2>2, <2>4, <2>6, <3>1 DEF Found
    <3>3. b \in 0..Len(log) /\ b + 1 \in 0..Len(log)
      BY <2>1, <3>2
    <3> QED BY <2>1, <3>1, <3>2, <3>3, GoodVerifies
  <2> QED BY <2>2, <2>4, <2>5, <2>6 DEF Found, BrowserAgrees
<1>2. CInv => TypeOK
  BY DEF CInv
<1> QED BY <1>1, <1>2, TrailHeads, PTL
============================================================================
