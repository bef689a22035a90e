----------------------- MODULE RateLimitControllerProofs -----------------------
(***************************************************************************)
(* Proofs about RateLimitController, for any requests and processes, any   *)
(* limits, and any number of failed calls and deaths.                      *)
(***************************************************************************)
EXTENDS RateLimitController, WellFoundedInduction, FiniteSetTheorems, TLAPS

Fields == {"pc", "wakeAt", "expires"}

\* A line in use is counted at least until it expires.
Counted(r) ==
    Live(r) =>
        \E b \in {Redis, ProcessOf[r]} : \E l \in Active(b) :
            l.request = r /\ l.expires >= line[r].expires

LeasesFit(b) == Cardinality(Active(b)) <= MaxActive

Second(b, t) == {m \in window[b] : t <= m.at /\ m.at < t + Window}
SecondsFit(b) == \A t \in Time : Cardinality(Second(b, t)) <= MaxMessages

TimesFit == now \in Nat

LinesFit ==
    /\ DOMAIN line = Requests
    /\ \A r \in Requests : DOMAIN line[r] = Fields /\ line[r].expires \in Nat

LeaseBooksFit ==
    /\ DOMAIN lease = Books
    /\ \A b \in Books : IsFiniteSet(lease[b]) /\ \A l \in lease[b] : l.expires \in Nat
    /\ \A b \in Books : LeasesFit(b)

WindowsFit ==
    /\ DOMAIN window = Books
    /\ \A b \in Books : IsFiniteSet(window[b]) /\ \A m \in window[b] : m.at \in Nat
    /\ \A b \in Books : SecondsFit(b)

Inv ==
    /\ TimesFit /\ LinesFit /\ LeaseBooksFit /\ WindowsFit
    /\ \A r \in Requests : Counted(r)

-----------------------------------------------------------------------------

LEMMA Numbers ==
    /\ MaxActive \in Nat /\ Ttl \in Nat /\ Ttl >= 1 /\ MaxMessages \in Nat
    /\ Window \in Nat /\ MaxTime \in Nat /\ MaxActive >= 1
    /\ \A r \in Requests : ProcessOf[r] \in Processes
    /\ Redis \notin Processes
BY ControllerAssumption

\* What is a part of a finite set is finite, and not larger.
LEMMA Smaller ==
    ASSUME NEW S, NEW T, IsFiniteSet(T), S \subseteq T, NEW n \in Nat,
           Cardinality(T) <= n
    PROVE  IsFiniteSet(S) /\ Cardinality(S) <= n
<1>1. /\ IsFiniteSet(S) /\ Cardinality(S) <= Cardinality(T)
      /\ Cardinality(S) \in Nat /\ Cardinality(T) \in Nat
  BY FS_Subset, FS_CardinalityType
<1>2. QED  BY <1>1

\* One more fits where there was room.
LEMMA OneMore ==
    ASSUME NEW S, NEW T, IsFiniteSet(T), NEW x, S \subseteq T \cup {x},
           NEW n \in Nat, Cardinality(T) < n
    PROVE  IsFiniteSet(S) /\ Cardinality(S) <= n
<1>1. /\ IsFiniteSet(T \cup {x}) /\ Cardinality(T) \in Nat
      /\ Cardinality(T \cup {x}) <= Cardinality(T) + 1
      /\ Cardinality(T \cup {x}) \in Nat
  BY FS_AddElement, FS_CardinalityType
<1>2. Cardinality(T \cup {x}) <= n  BY <1>1
<1>3. QED  BY <1>1, <1>2, Smaller

-----------------------------------------------------------------------------
\* The parts of the invariant after a step.

\* The line of r, the only one that changes, keeps its shape.
LEMMA PcChanges ==
    ASSUME LinesFit, NEW r \in Requests, NEW p, line' = [line EXCEPT ![r].pc = p]
    PROVE  /\ LinesFit' /\ line'[r].pc = p
           /\ \A x \in Requests : /\ line'[x].expires = line[x].expires
                                  /\ x # r => line'[x] = line[x]
BY DEF LinesFit, Fields

LEMMA WakeAtChanges ==
    ASSUME LinesFit, NEW r \in Requests, NEW t, line' = [line EXCEPT ![r].wakeAt = t]
    PROVE  /\ LinesFit'
           /\ \A x \in Requests : /\ line'[x].expires = line[x].expires
                                  /\ line'[x].pc = line[x].pc
BY DEF LinesFit, Fields

LEMMA LineIsHeld ==
    ASSUME LinesFit, NEW r \in Requests, NEW e \in Nat,
           line' = [line EXCEPT ![r].pc = "held", ![r].expires = e]
    PROVE  /\ LinesFit' /\ line'[r].expires = e
           /\ \A x \in Requests : x # r => line'[x] = line[x]
BY DEF LinesFit, Fields

\* A book that grants a lease keeps those that are active, and its limit.
LEMMA BookGrants ==
    ASSUME TimesFit, LeaseBooksFit, UNCHANGED now,
           NEW r \in Requests, NEW b \in Books, Room(b), Leases(b, r)
    PROVE  /\ LeaseBooksFit'
           /\ [request |-> r, expires |-> now + Ttl] \in lease'[b]
           /\ \A c \in Books : \A l \in Active(c) : l \in lease'[c]
<1> DEFINE new == [request |-> r, expires |-> now + Ttl]
<1>1. /\ DOMAIN lease' = Books /\ lease'[b] = Active(b) \cup {new}
      /\ \A c \in Books : c # b => lease'[c] = lease[c]
      /\ new.expires \in Nat
  BY Numbers DEF LeaseBooksFit, Leases, TimesFit
<1> HIDE DEF new
<1>2. /\ IsFiniteSet(Active(b)) /\ Cardinality(Active(b)) < MaxActive
      /\ Active(b) \subseteq lease[b]
  BY FS_Subset DEF LeaseBooksFit, Active, Room
<1>3. \A c \in Books : IsFiniteSet(lease'[c]) /\ \A l \in lease'[c] : l.expires \in Nat
  BY <1>1, <1>2, FS_AddElement DEF LeaseBooksFit
<1>4. \A c \in Books : LeasesFit(c)'
  <2>1. Active(b)' \subseteq Active(b) \cup {new}  BY <1>1 DEF Active
  <2>2. Cardinality(Active(b)') <= MaxActive  BY <1>2, <2>1, Numbers, OneMore
  <2>3. QED  BY <1>1, <2>2 DEF LeaseBooksFit, LeasesFit, Active
<1>5. \A c \in Books : \A l \in Active(c) : l \in lease'[c]
  BY <1>1 DEF Active
<1>6. new \in lease'[b]  BY <1>1
<1>7. QED  BY <1>1, <1>3, <1>4, <1>5, <1>6 DEF LeaseBooksFit, new

\* Books that only lose leases keep their limits.
LEMMA BooksLose ==
    ASSUME TimesFit, LeaseBooksFit, now' \in Nat, now' >= now,
           DOMAIN lease' = Books, \A b \in Books : lease'[b] \subseteq lease[b]
    PROVE  LeaseBooksFit'
<1>1. \A b \in Books : IsFiniteSet(lease'[b]) /\ \A l \in lease'[b] : l.expires \in Nat
  BY FS_Subset DEF LeaseBooksFit
<1>2. ASSUME NEW b \in Books PROVE LeasesFit(b)'
  <2>1. Active(b)' \subseteq Active(b)
    BY DEF Active, LeaseBooksFit, TimesFit
  <2>2. IsFiniteSet(Active(b)) /\ Cardinality(Active(b)) <= MaxActive
    BY FS_Subset DEF Active, LeaseBooksFit, LeasesFit
  <2>3. Cardinality(Active(b)') <= MaxActive  BY <2>1, <2>2, Numbers, Smaller
  <2>4. QED  BY <2>3 DEF LeasesFit
<1>3. QED  BY <1>1, <1>2 DEF LeaseBooksFit

\* A line that was counted is counted, as long as its leases stay.
LEMMA StaysCounted ==
    ASSUME TimesFit, LeaseBooksFit, now' \in Nat, now' >= now,
           NEW x \in Requests, Counted(x), line[x].expires \in Nat,
           line'[x].pc = "held" => line[x].pc = "held",
           line'[x].expires = line[x].expires,
           \A b \in {Redis, ProcessOf[x]} : \A l \in Active(b) :
               l.request = x /\ l.expires > now' => l \in lease'[b]
    PROVE  Counted(x)'
<1> SUFFICES ASSUME Live(x)'
             PROVE  \E b \in {Redis, ProcessOf[x]} : \E l \in Active(b)' :
                        l.request = x /\ l.expires >= line[x].expires
  BY DEF Counted
<1>1. Live(x) /\ now' < line[x].expires
  <2>1. line[x].pc = "held" /\ now' < line[x].expires  BY DEF Live
  <2>2. now < line[x].expires  BY <2>1 DEF TimesFit
  <2>3. QED  BY <2>1, <2>2 DEF Live
<1>2. PICK b \in {Redis, ProcessOf[x]} :
         \E l \in Active(b) : l.request = x /\ l.expires >= line[x].expires
  BY <1>1 DEF Counted
<1>3. PICK l \in Active(b) : l.request = x /\ l.expires >= line[x].expires
  BY <1>2
<1>4. b \in Books /\ l.expires \in Nat
  BY <1>2, <1>3, Numbers DEF Books, Active, LeaseBooksFit
<1>5. l.expires > now'  BY <1>1, <1>3, <1>4
<1>6. l \in Active(b)'  BY <1>2, <1>3, <1>5 DEF Active
<1>7. QED  BY <1>2, <1>3, <1>6

\* Nothing happens to the windows, or one of them forgets.
LEMMA WindowsLose ==
    ASSUME WindowsFit, DOMAIN window' = Books,
           \A b \in Books : window'[b] \subseteq window[b]
    PROVE  WindowsFit'
<1>1. \A b \in Books : IsFiniteSet(window'[b]) /\ \A m \in window'[b] : m.at \in Nat
  BY FS_Subset DEF WindowsFit
<1>2. ASSUME NEW b \in Books, NEW t \in Time PROVE Cardinality(Second(b, t)') <= MaxMessages
  <2>1. Second(b, t)' \subseteq Second(b, t)  BY DEF Second
  <2>2. IsFiniteSet(Second(b, t)) /\ Cardinality(Second(b, t)) <= MaxMessages
    BY FS_Subset DEF Second, WindowsFit, SecondsFit
  <2>3. QED  BY <2>1, <2>2, Numbers, Smaller
<1>3. QED  BY <1>1, <1>2 DEF WindowsFit, SecondsFit, Second

-----------------------------------------------------------------------------
\* The steps.

LEMMA BookOf ==
    ASSUME NEW r \in Requests, NEW pc \in {"redis", "local"}
    PROVE  Book(r, pc) \in {Redis, ProcessOf[r]} /\ Book(r, pc) \in Books
BY Numbers DEF Book, Books

LEMMA AsksKeeps == ASSUME Inv, NEW r \in Requests, Asks(r) PROVE Inv'
<1>1. /\ TimesFit /\ LinesFit /\ LeaseBooksFit /\ WindowsFit
      /\ line' = [line EXCEPT ![r].pc = "redis"]
      /\ UNCHANGED <<now, lease, window>>
  BY DEF Inv, Asks, Goes
<1>2. /\ LinesFit' /\ line'[r].pc = "redis"
      /\ \A x \in Requests : /\ line'[x].expires = line[x].expires
                             /\ x # r => line'[x] = line[x]
  BY <1>1, PcChanges
<1>3. TimesFit' /\ LeaseBooksFit' /\ WindowsFit'
  BY <1>1 DEF TimesFit, LeaseBooksFit, LeasesFit, Active, WindowsFit, SecondsFit, Second
<1>4. ASSUME NEW x \in Requests PROVE Counted(x)'
  BY <1>1, <1>2, StaysCounted DEF Inv, TimesFit, LinesFit, Active
<1>5. QED  BY <1>2, <1>3, <1>4 DEF Inv

LEMMA AcquiresKeeps ==
    ASSUME Inv, NEW r \in Requests, NEW pc \in {"redis", "local"}, Acquires(r, pc)
    PROVE  Inv'
<1> DEFINE b == Book(r, pc)
           new == [request |-> r, expires |-> now + Ttl]
<1>1. /\ TimesFit /\ LinesFit /\ LeaseBooksFit /\ WindowsFit
      /\ now + Ttl \in Nat /\ now < now + Ttl
      /\ UNCHANGED <<now, window>> /\ b \in {Redis, ProcessOf[r]} /\ b \in Books
      /\ Room(b) /\ Leases(b, r)
      /\ line' = [line EXCEPT ![r].pc = "held", ![r].expires = now + Ttl]
  BY BookOf, Numbers DEF Inv, Acquires, TimesFit
<1>2. new.request = r /\ new.expires = now + Ttl  OBVIOUS
<1> HIDE DEF b
<1>3. /\ LeaseBooksFit' /\ new \in lease'[b]
      /\ \A c \in Books : \A l \in Active(c) : l \in lease'[c]
  BY <1>1, BookGrants
<1> HIDE DEF new
<1>4. /\ LinesFit' /\ line'[r].expires = now + Ttl
      /\ \A x \in Requests : x # r => line'[x] = line[x]
  BY <1>1, LineIsHeld
<1>5. TimesFit' /\ WindowsFit'
  BY <1>1 DEF TimesFit, WindowsFit, SecondsFit, Second
<1>6. Counted(r)'
  <2>1. new \in Active(b)'  BY <1>1, <1>2, <1>3 DEF Active
  <2>2. new.expires >= line'[r].expires  BY <1>1, <1>2, <1>4
  <2>3. QED  BY <1>1, <1>2, <2>1, <2>2 DEF Counted
<1>7. ASSUME NEW x \in Requests, x # r PROVE Counted(x)'
  <2>1. \A c \in {Redis, ProcessOf[x]} : c \in Books  BY Numbers DEF Books
  <2>2. QED
    BY <1>1, <1>3, <1>4, <1>7, <2>1, StaysCounted DEF Inv, TimesFit, LinesFit
<1>8. QED  BY <1>3, <1>4, <1>5, <1>6, <1>7 DEF Inv

LEMMA SleepsKeeps ==
    ASSUME Inv, NEW r \in Requests, NEW pc \in {"redis", "local"}, Sleeps(r, pc)
    PROVE  Inv'
<1> DEFINE b == Book(r, pc)
           t == Min({l.expires : l \in Active(b)})
<1>1. /\ TimesFit /\ LinesFit /\ LeaseBooksFit /\ WindowsFit
      /\ UNCHANGED <<now, window>> /\ b \in Books
      /\ lease' = [lease EXCEPT ![b] = Active(b)]
      /\ line' = [line EXCEPT ![r].wakeAt = t]
  BY BookOf DEF Inv, Sleeps
<1> HIDE DEF b, t
<1>2. /\ LinesFit'
      /\ \A x \in Requests : line'[x].expires = line[x].expires
                             /\ line'[x].pc = line[x].pc
  BY <1>1, WakeAtChanges
<1>3. /\ DOMAIN lease' = Books
      /\ \A c \in Books : lease'[c] \subseteq lease[c]
      /\ \A c \in Books : \A l \in Active(c) : l \in lease'[c]
  BY <1>1 DEF LeaseBooksFit, Active
<1>4. LeaseBooksFit'  BY <1>1, <1>3, BooksLose DEF TimesFit
<1>5. TimesFit' /\ WindowsFit'
  BY <1>1 DEF TimesFit, WindowsFit, SecondsFit, Second
<1>6. ASSUME NEW x \in Requests PROVE Counted(x)'
  <2>1. \A c \in {Redis, ProcessOf[x]} : c \in Books  BY Numbers DEF Books
  <2>2. QED
    BY <1>1, <1>2, <1>3, <2>1, StaysCounted DEF Inv, TimesFit, LinesFit
<1>7. QED  BY <1>2, <1>4, <1>5, <1>6 DEF Inv

LEMMA FallsBackKeeps == ASSUME Inv, NEW r \in Requests, FallsBack(r) PROVE Inv'
<1>1. /\ TimesFit /\ LinesFit /\ LeaseBooksFit /\ WindowsFit
      /\ UNCHANGED <<now, window>>
      /\ lease' = lease \/ (Room(Redis) /\ Leases(Redis, r))
  <2>1. TimesFit /\ LinesFit /\ LeaseBooksFit /\ WindowsFit  BY DEF Inv
  <2>2. UNCHANGED <<now, window>>  BY DEF FallsBack
  <2>3. lease' = lease \/ (Room(Redis) /\ Leases(Redis, r))  BY Zenon DEF FallsBack
  <2>4. QED  BY <2>1, <2>2, <2>3
<1>2. /\ LinesFit' /\ line'[r].pc = "local"
      /\ \A x \in Requests : /\ line'[x].expires = line[x].expires
                             /\ x # r => line'[x] = line[x]
  <2>1. line' = [line EXCEPT ![r].pc = "local"]  BY DEF FallsBack
  <2>2. QED  BY <1>1, <2>1, PcChanges
<1>3. LeaseBooksFit' /\ \A c \in Books : \A l \in Active(c) : l \in lease'[c]
  <2>1. CASE UNCHANGED lease
    BY <1>1, <2>1 DEF LeaseBooksFit, LeasesFit, Active
  <2>2. CASE Room(Redis) /\ Leases(Redis, r)
    <3>1. Redis \in Books  BY DEF Books
    <3>2. QED  BY <1>1, <2>2, <3>1, BookGrants
  <2>3. QED  BY <1>1, <2>1, <2>2
<1>4. TimesFit' /\ WindowsFit'
  BY <1>1 DEF TimesFit, WindowsFit, SecondsFit, Second
<1>5. ASSUME NEW x \in Requests PROVE Counted(x)'
  <2>1. \A c \in {Redis, ProcessOf[x]} : c \in Books  BY Numbers DEF Books
  <2>2. QED
    BY <1>1, <1>2, <1>3, <2>1, StaysCounted DEF Inv, TimesFit, LinesFit
<1>6. QED  BY <1>2, <1>3, <1>4, <1>5 DEF Inv

\* A line that is done takes only its own leases away.
LEMMA DoneKeeps ==
    ASSUME Inv, NEW r \in Requests, NEW b \in Books, Goes(r, "done"), Drop(b, r),
           UNCHANGED <<now, window>>
    PROVE  Inv'
<1>1. /\ TimesFit /\ LinesFit /\ LeaseBooksFit /\ WindowsFit
      /\ line' = [line EXCEPT ![r].pc = "done"]
  BY DEF Inv, Goes
<1>2. /\ LinesFit' /\ line'[r].pc = "done"
      /\ \A x \in Requests : /\ line'[x].expires = line[x].expires
                             /\ x # r => line'[x] = line[x]
  BY <1>1, PcChanges
<1>3. /\ DOMAIN lease' = Books
      /\ \A c \in Books : lease'[c] \subseteq lease[c]
      /\ \A c \in Books : \A l \in lease[c] : l.request # r => l \in lease'[c]
  BY <1>1 DEF LeaseBooksFit, Drop
<1>4. LeaseBooksFit'  BY <1>1, <1>3, BooksLose DEF TimesFit
<1>5. TimesFit' /\ WindowsFit'
  BY <1>1 DEF TimesFit, WindowsFit, SecondsFit, Second
<1>6. ASSUME NEW x \in Requests PROVE Counted(x)'
  <2>1. CASE x = r  BY <1>2, <2>1 DEF Counted, Live
  <2>2. CASE x # r
    <3>1. \A c \in {Redis, ProcessOf[x]} : c \in Books  BY Numbers DEF Books
    <3>2. QED
      BY <1>1, <1>2, <1>3, <2>2, <3>1, StaysCounted
         DEF Inv, TimesFit, LinesFit, Active
  <2>3. QED  BY <2>1, <2>2
<1>7. QED  BY <1>2, <1>4, <1>5, <1>6 DEF Inv

LEMMA ReleasesKeeps ==
    ASSUME Inv, NEW r \in Requests, Releases(r) \/ ReleaseFails(r) PROVE Inv'
<1>1. /\ Goes(r, "done") /\ UNCHANGED <<now, window>>
      /\ Drop(Redis, r) \/ Drop(ProcessOf[r], r)
  BY DEF Releases, ReleaseFails
<1>2. Redis \in Books /\ ProcessOf[r] \in Books  BY Numbers DEF Books
<1>3. QED  BY <1>1, <1>2, DoneKeeps

\* A process dies with all its lines, so that none of them needs its book.
LEMMA DiesKeeps == ASSUME Inv, NEW p \in Processes, Dies(p) PROVE Inv'
<1>1. /\ TimesFit /\ LinesFit /\ LeaseBooksFit /\ WindowsFit /\ p \in Books
      /\ UNCHANGED now
      /\ line' = [r \in Requests |->
            IF ProcessOf[r] = p THEN [line[r] EXCEPT !.pc = "done"] ELSE line[r]]
      /\ lease' = [lease EXCEPT ![p] = {}] /\ window' = [window EXCEPT ![p] = {}]
  BY DEF Inv, Dies, Books
<1>2. LinesFit'
      /\ \A x \in Requests : /\ line'[x].expires = line[x].expires
                             /\ ProcessOf[x] = p => line'[x].pc = "done"
                             /\ ProcessOf[x] # p => line'[x] = line[x]
  <2>1. ASSUME NEW x \in Requests
        PROVE  /\ DOMAIN line'[x] = Fields /\ line'[x].expires = line[x].expires
               /\ line'[x].expires \in Nat
               /\ ProcessOf[x] = p => line'[x].pc = "done"
               /\ ProcessOf[x] # p => line'[x] = line[x]
    <3>1. DOMAIN line[x] = Fields /\ line[x].expires \in Nat
      BY <1>1 DEF LinesFit
    <3>2. CASE ProcessOf[x] = p
      <4>1. line'[x] = [line[x] EXCEPT !.pc = "done"]  BY <1>1, <3>2
      <4>2. QED  BY <3>1, <3>2, <4>1 DEF Fields
    <3>3. CASE ProcessOf[x] # p  BY <1>1, <3>1, <3>3
    <3>4. QED  BY <3>2, <3>3
  <2>2. DOMAIN line' = Requests  BY <1>1
  <2>3. QED  BY <2>1, <2>2 DEF LinesFit
<1>3. /\ DOMAIN lease' = Books /\ DOMAIN window' = Books
      /\ \A c \in Books : lease'[c] \subseteq lease[c] /\ window'[c] \subseteq window[c]
      /\ \A c \in Books : c # p => lease'[c] = lease[c]
  BY <1>1 DEF LeaseBooksFit, WindowsFit
<1>4. LeaseBooksFit' /\ WindowsFit' /\ TimesFit'
  BY <1>1, <1>3, BooksLose, WindowsLose DEF TimesFit
<1>5. ASSUME NEW x \in Requests PROVE Counted(x)'
  <2>1. CASE ProcessOf[x] = p  BY <1>2, <2>1 DEF Counted, Live
  <2>2. CASE ProcessOf[x] # p
    <3>1. \A c \in {Redis, ProcessOf[x]} : c \in Books /\ c # p
      BY <2>2, Numbers DEF Books
    <3>2. QED
      BY <1>1, <1>2, <1>3, <2>2, <3>1, StaysCounted
         DEF Inv, TimesFit, LinesFit, Active
  <2>3. QED  BY <2>1, <2>2
<1>6. QED  BY <1>2, <1>4, <1>5 DEF Inv

\* A message is sent only where the second that ends with it has room; every
\* other second it falls into is a part of that one.
LEMMA SendsKeeps ==
    ASSUME Inv, NEW b \in Books, Sends(b), UNCHANGED <<now, lease, line>>
    PROVE  Inv'
<1> DEFINE new == [at |-> now, number |-> 1 + Cardinality(window[b])]
<1>1. /\ TimesFit /\ LinesFit /\ LeaseBooksFit /\ WindowsFit
      /\ window' = [window EXCEPT ![b] = window[b] \cup {new}]
      /\ Cardinality(Recent(b, now)) < MaxMessages
  BY DEF Inv, Sends
<1>2. new.at = now  OBVIOUS
<1> HIDE DEF new
<1>3. /\ DOMAIN window' = Books /\ window'[b] = window[b] \cup {new}
      /\ \A c \in Books : c # b => window'[c] = window[c]
  BY <1>1 DEF WindowsFit
<1>4. \A c \in Books : IsFiniteSet(window'[c]) /\ \A m \in window'[c] : m.at \in Nat
  BY <1>1, <1>2, <1>3, FS_AddElement DEF WindowsFit, TimesFit
<1>5. ASSUME NEW c \in Books, NEW t \in Time
      PROVE  Cardinality(Second(c, t)') <= MaxMessages
  <2>1. Cardinality(Second(c, t)) <= MaxMessages
    BY <1>1 DEF WindowsFit, SecondsFit
  <2>2. CASE c # b \/ ~(t <= now /\ now < t + Window)
    <3>1. Second(c, t)' = Second(c, t)  BY <1>2, <1>3, <2>2 DEF Second
    <3>2. QED  BY <2>1, <3>1
  <2>3. CASE c = b /\ t <= now /\ now < t + Window
    <3>1. t \in Nat /\ now \in Nat /\ Window \in Nat /\ \A m \in window[b] : m.at \in Nat
      BY <1>1, Numbers DEF Time, TimesFit, WindowsFit
    <3>2. Second(c, t)' \subseteq Recent(b, now) \cup {new}
      BY <1>3, <2>3, <3>1 DEF Second, Recent
    <3>3. IsFiniteSet(Recent(b, now))
      BY <1>1, FS_Subset DEF Recent, WindowsFit
    <3>4. QED  BY <1>1, <3>2, <3>3, Numbers, OneMore
  <2>4. QED  BY <2>2, <2>3
<1>6. WindowsFit'  BY <1>3, <1>4, <1>5 DEF WindowsFit, SecondsFit, Second
<1>7. TimesFit' /\ LinesFit' /\ LeaseBooksFit' /\ \A r \in Requests : Counted(r)'
  BY DEF Inv, TimesFit, LinesFit, LeaseBooksFit, LeasesFit, Active, Counted, Live
<1>8. QED  BY <1>6, <1>7 DEF Inv

LEMMA TickKeeps == ASSUME Inv, Tick PROVE Inv'
<1>1. /\ TimesFit /\ LinesFit /\ LeaseBooksFit /\ WindowsFit
      /\ now' \in Nat /\ now' >= now /\ UNCHANGED <<lease, line, window>>
  BY DEF Inv, TimesFit, Tick
<1>2. LeaseBooksFit'
  <2>1. DOMAIN lease' = Books /\ \A b \in Books : lease'[b] \subseteq lease[b]
    BY <1>1 DEF LeaseBooksFit
  <2>2. QED  BY <1>1, <2>1, BooksLose
<1>3. TimesFit' /\ LinesFit' /\ WindowsFit'
  BY <1>1 DEF TimesFit, LinesFit, WindowsFit, SecondsFit, Second
<1>4. ASSUME NEW x \in Requests PROVE Counted(x)'
  BY <1>1, StaysCounted DEF Inv, LinesFit, Active
<1>5. QED  BY <1>2, <1>3, <1>4 DEF Inv

-----------------------------------------------------------------------------
\* The theorem.

LEMMA InitInv == Init => Inv
<1> SUFFICES ASSUME Init PROVE Inv  OBVIOUS
<1>1. /\ now = 0 /\ lease = [b \in Books |-> {}] /\ window = [b \in Books |-> {}]
      /\ line = [r \in Requests |-> [pc |-> "idle", wakeAt |-> 0, expires |-> 0]]
  BY DEF Init
<1>2. TimesFit /\ LinesFit  BY <1>1 DEF TimesFit, LinesFit, Fields
<1>3. LeaseBooksFit
  <2>1. \A b \in Books : Active(b) = {}  BY <1>1 DEF Active
  <2>2. QED  BY <1>1, <2>1, FS_EmptySet, Numbers DEF LeaseBooksFit, LeasesFit
<1>4. WindowsFit
  <2>1. \A b \in Books, t \in Time : Second(b, t) = {}  BY <1>1 DEF Second
  <2>2. QED  BY <1>1, <2>1, FS_EmptySet, Numbers DEF WindowsFit, SecondsFit
<1>5. \A r \in Requests : Counted(r)  BY <1>1 DEF Counted, Live
<1>6. QED  BY <1>2, <1>3, <1>4, <1>5 DEF Inv

LEMMA NextInv == Inv /\ [Next]_vars => Inv'
<1> SUFFICES ASSUME Inv, [Next]_vars PROVE Inv'  OBVIOUS
<1>1. CASE Tick  BY <1>1, TickKeeps
<1>2. CASE SendsByRedis
  <2>1. Redis \in Books  BY DEF Books
  <2>2. QED  BY <1>2, <2>1, SendsKeeps DEF SendsByRedis
<1>3. ASSUME NEW p \in Processes, SendsByFallback(p) \/ Dies(p) PROVE Inv'
  <2>1. p \in Books  BY DEF Books
  <2>2. QED  BY <1>3, <2>1, SendsKeeps, DiesKeeps DEF SendsByFallback
<1>4. ASSUME NEW r \in Requests, LineSteps(r) PROVE Inv'
  BY <1>4, AsksKeeps, FallsBackKeeps, ReleasesKeeps, AcquiresKeeps, SleepsKeeps
     DEF LineSteps
<1>5. CASE UNCHANGED vars
  BY <1>5 DEF vars, Inv, TimesFit, LinesFit, LeaseBooksFit, LeasesFit, Active,
              WindowsFit, SecondsFit, Second, Counted, Live
<1>6. QED  BY <1>1, <1>2, <1>3, <1>4, <1>5 DEF Next

LEMMA InvBudgets == Inv => BudgetsKept
<1> SUFFICES ASSUME Inv PROVE BudgetsKept  OBVIOUS
<1>1. \A r \in Requests : Live(r) =>
         \E b \in {Redis, ProcessOf[r]} : \E l \in Active(b) : l.request = r
  BY DEF Inv, Counted
<1>2. \A b \in Books : Cardinality(Active(b)) <= MaxActive
  BY DEF Inv, LeaseBooksFit, LeasesFit
<1>3. \A b \in Books : \A t \in Time :
         Cardinality({m \in window[b] : t <= m.at /\ m.at < t + Window}) <= MaxMessages
  BY DEF Inv, WindowsFit, SecondsFit, Second
<1>4. QED  BY <1>1, <1>2, <1>3 DEF BudgetsKept

(* Neither the budget of market-data lines nor that of messages is exceeded in *)
(* any book, and no line in use goes uncounted before it expires, whatever     *)
(* number of processes, failed Redis calls and deaths there is:                *)
(* IBKRRateLimitController, its two Lua scripts and its local fallbacks.       *)
THEOREM BudgetsHold == Spec => []BudgetsKept
BY InitInv, NextInv, InvBudgets, PTL DEF Spec
-----------------------------------------------------------------------------
\* The types: what is recorded lies within the bounds of the run.

LineType ==
    [pc : {"idle", "redis", "local", "held", "done"},
     wakeAt : 0..MaxTime + Ttl, expires : 0..MaxTime + Ttl]

LEMMA Bounds ==
    /\ MaxTime \in Nat /\ Ttl \in Nat /\ MaxSent \in Nat /\ MaxErrors \in Nat
    /\ MaxActive \in Nat /\ MaxActive > 0
BY ControllerAssumption

\* A book that grants a lease, or drops some.
LEMMA LeasesTyped ==
    ASSUME TypeOK, NEW b \in Books, NEW more,
           more \subseteq Lease, lease' = [lease EXCEPT ![b] = more]
    PROVE  lease' \in [Books -> SUBSET Lease]
BY DEF TypeOK

LEMMA LeaseIsTyped ==
    ASSUME TypeOK, NEW r \in Requests
    PROVE  now + Ttl \in 0..MaxTime + Ttl
           /\ [request |-> r, expires |-> now + Ttl] \in Lease
BY Bounds DEF TypeOK, Lease, Time

\* The oldest lease of a full book (Min).
LEMMA OldestLease ==
    ASSUME Inv, TypeOK, NEW b \in Books, ~Room(b)
    PROVE  Min({l.expires : l \in Active(b)}) \in 0..MaxTime + Ttl
<1> DEFINE times == {l.expires : l \in Active(b)}
<1>1. Active(b) # {}
  <2>1. IsFiniteSet(Active(b)) /\ Cardinality({}) = 0
    BY FS_Subset, FS_EmptySet DEF Inv, LeaseBooksFit, Active
  <2>2. QED  BY <2>1, Bounds DEF Room
<1>2. times \subseteq 0..MaxTime + Ttl /\ times # {}
  BY <1>1 DEF TypeOK, Active, Lease
<1>3. PICK x \in times : \A y \in times : ~ (<<y, x>> \in OpToRel(<, Nat))
  <2>1. times \subseteq Nat  BY <1>2, Bounds
  <2> HIDE DEF times
  <2>2. QED  BY <1>2, <2>1, WFMin, NatLessThanWellFounded
<1>4. \A y \in times : x <= y
  <2> HIDE DEF times
  <2> SUFFICES ASSUME NEW y \in times, y < x PROVE FALSE  BY <1>2, Bounds
  <2>1. <<y, x>> \in {ss \in Nat \X Nat : ss[1] < ss[2]}  BY <1>2, Bounds
  <2>2. QED  BY <1>3, <2>1 DEF OpToRel
<1>5. Min(times) \in times  BY <1>4 DEF Min
<1>6. QED  BY <1>2, <1>5

LEMMA LineStepsTyped ==
    ASSUME Inv, TypeOK, NEW r \in Requests, LineSteps(r) PROVE TypeOK'
<1>1. \A b \in Books : Active(b) \subseteq Lease  BY DEF TypeOK, Active
<1>2. CASE Asks(r)  BY <1>2 DEF Asks, Goes, TypeOK
<1>3. ASSUME NEW pc \in {"redis", "local"}, Acquires(r, pc) PROVE TypeOK'
  <2> DEFINE b == Book(r, pc)
             new == [request |-> r, expires |-> now + Ttl]
  <2>1. /\ lease' = [lease EXCEPT ![b] = Active(b) \cup {new}]
        /\ line' = [line EXCEPT ![r].pc = "held", ![r].expires = now + Ttl]
        /\ UNCHANGED <<now, window, errors>> /\ b \in Books
    BY <1>3, BookOf DEF Acquires, Leases
  <2>2. new \in Lease /\ now + Ttl \in 0..MaxTime + Ttl  BY LeaseIsTyped
  <2> HIDE DEF b, new
  <2>3. lease' \in [Books -> SUBSET Lease]
    <3>1. Active(b) \cup {new} \subseteq Lease  BY <1>1, <2>1, <2>2
    <3>2. QED  BY <2>1, <3>1, LeasesTyped
  <2>4. line' \in [Requests -> LineType]  BY <2>1, <2>2 DEF TypeOK, LineType
  <2>5. QED  BY <2>1, <2>3, <2>4 DEF TypeOK, LineType
<1>4. ASSUME NEW pc \in {"redis", "local"}, Sleeps(r, pc) PROVE TypeOK'
  <2> DEFINE b == Book(r, pc)
             t == Min({l.expires : l \in Active(b)})
  <2>1. /\ lease' = [lease EXCEPT ![b] = Active(b)] /\ line' = [line EXCEPT ![r].wakeAt = t]
        /\ UNCHANGED <<now, window, errors>> /\ b \in Books /\ ~Room(b)
    BY <1>4, BookOf DEF Sleeps
  <2> HIDE DEF b
  <2>2. t \in 0..MaxTime + Ttl  BY <2>1, OldestLease
  <2> HIDE DEF t
  <2>3. lease' \in [Books -> SUBSET Lease]  BY <1>1, <2>1, LeasesTyped
  <2>4. line' \in [Requests -> LineType]  BY <2>1, <2>2 DEF TypeOK, LineType
  <2>5. QED  BY <2>1, <2>3, <2>4 DEF TypeOK, LineType
<1>5. CASE FallsBack(r)
  <2>1. /\ lease' = lease \/ lease' = [lease EXCEPT ![Redis] = Active(Redis)
                                \cup {[request |-> r, expires |-> now + Ttl]}]
        /\ line' = [line EXCEPT ![r].pc = "local"] /\ UNCHANGED <<now, window>>
        /\ errors < MaxErrors /\ errors' = errors + 1
    <3>1. FallsBack(r)  BY <1>5
    <3>2. QED  BY <3>1, Zenon DEF FallsBack, Leases, Fails
  <2>2. Redis \in Books  BY DEF Books
  <2>3. lease' \in [Books -> SUBSET Lease]
    BY <1>1, <2>1, <2>2, LeaseIsTyped, LeasesTyped DEF TypeOK
  <2>4. line' \in [Requests -> LineType]  BY <2>1 DEF TypeOK, LineType
  <2>5. errors' \in 0..MaxErrors  BY <2>1, Bounds DEF TypeOK
  <2>6. QED  BY <2>1, <2>3, <2>4, <2>5 DEF TypeOK, LineType
<1>6. CASE Releases(r) \/ ReleaseFails(r)
  <2>1. PICK b \in Books : lease' = [lease EXCEPT ![b] = {l \in @ : l.request # r}]
    BY <1>6, Numbers DEF Releases, ReleaseFails, Drop, Books
  <2>2. lease' = [lease EXCEPT ![b] = {l \in lease[b] : l.request # r}]  BY <2>1 DEF TypeOK
  <2>3. lease' \in [Books -> SUBSET Lease]
    <3>1. {l \in lease[b] : l.request # r} \subseteq Lease  BY DEF TypeOK
    <3>2. QED  BY <2>2, <3>1, LeasesTyped
  <2>4. line' = [line EXCEPT ![r].pc = "done"] /\ UNCHANGED <<now, window>>
    BY <1>6 DEF Releases, ReleaseFails, Goes
  <2>5. line' \in [Requests -> LineType]  BY <2>4 DEF TypeOK, LineType
  <2>6. errors' \in 0..MaxErrors
    BY <1>6, Bounds DEF Releases, ReleaseFails, Fails, TypeOK
  <2>7. QED  BY <2>3, <2>4, <2>5, <2>6 DEF TypeOK, LineType
<1>7. QED  BY <1>2, <1>3, <1>4, <1>5, <1>6 DEF LineSteps

LEMMA SendsTyped ==
    ASSUME Inv, TypeOK, NEW b \in Books, Sends(b), UNCHANGED <<now, lease, line>>,
           errors' \in 0..MaxErrors
    PROVE  TypeOK'
<1> DEFINE new == [at |-> now, number |-> 1 + Cardinality(window[b])]
<1>1. window' = [window EXCEPT ![b] = window[b] \cup {new}]  BY DEF Sends
<1>2. Cardinality(window[b]) \in Nat /\ Cardinality(window[b]) < MaxSent
  BY FS_CardinalityType DEF Inv, WindowsFit, Sends
<1>3. new \in Message  BY <1>2, Bounds DEF Message, TypeOK
<1> HIDE DEF new
<1>4. window' \in [Books -> SUBSET Message]  BY <1>1, <1>3 DEF TypeOK
<1>5. QED  BY <1>4 DEF TypeOK

LEMMA DiesTyped == ASSUME TypeOK, NEW p \in Processes, Dies(p) PROVE TypeOK'
<1>1. p \in Books  BY DEF Books
<1>2. line' \in [Requests -> LineType]  BY DEF TypeOK, LineType, Dies
<1>3. lease' \in [Books -> SUBSET Lease] /\ window' \in [Books -> SUBSET Message]
  BY <1>1 DEF TypeOK, Dies
<1>4. errors' \in 0..MaxErrors /\ now' = now  BY Bounds DEF TypeOK, Dies, Fails
<1>5. QED  BY <1>2, <1>3, <1>4 DEF TypeOK, LineType

LEMMA InitTypes == Init => TypeOK
BY Bounds DEF Init, TypeOK, Time

LEMMA NextTypes == ASSUME Inv, TypeOK, [Next]_vars PROVE TypeOK'
<1>1. CASE Tick  BY <1>1, Bounds DEF Tick, TypeOK, Time
<1>2. CASE SendsByRedis
  <2>1. Redis \in Books  BY DEF Books
  <2>2. QED  BY <1>2, <2>1, SendsTyped DEF SendsByRedis, TypeOK
<1>3. ASSUME NEW p \in Processes, SendsByFallback(p) PROVE TypeOK'
  <2>1. p \in Books  BY DEF Books
  <2>2. errors' \in 0..MaxErrors  BY <1>3, Bounds DEF SendsByFallback, Fails, TypeOK
  <2>3. QED  BY <1>3, <2>1, <2>2, SendsTyped DEF SendsByFallback
<1>4. CASE UNCHANGED vars  BY <1>4 DEF vars, TypeOK
<1>5. QED  BY <1>1, <1>2, <1>3, <1>4, LineStepsTyped, DiesTyped DEF Next
=============================================================================
