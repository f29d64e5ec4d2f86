----------------------- MODULE DiscoveryLimiterProofs -----------------------
(***************************************************************************)
(* The bound of the discovery limiter for every number of hosts, every     *)
(* window and every limit.                                                 *)
(*                                                                         *)
(* What a host was admitted is a sequence of times, and its counter speaks *)
(* of the last "count" of them.  The invariant says where the window in    *)
(* front of that one lies: MaxDiscoveryPerWindow admissions before the     *)
(* counter's first, the clock was a window or more behind.  That is what   *)
(* remains of a counter that was restarted or swept away.                  *)
(***************************************************************************)
EXTENDS DiscoveryLimiter, FiniteSetTheorems, TLAPS

Max == MaxDiscoveryPerWindow

LimiterTypeOK ==
    /\ now \in Nat
    /\ clients \in [Clients -> Counters \cup {None}]
    /\ admitted \in [Clients -> Seq(Nat)]

\* Times never go back and none lies ahead of the clock.
Recorded(times, t) ==
    /\ \A j, k \in 1 .. Len(times) : j <= k => times[j] <= times[k]
    /\ \A j \in 1 .. Len(times) : times[j] <= t

\* Of 2 * Max admissions in a row the last comes a window after the first.
Spread(times) ==
    \A k \in 1 .. Len(times) :
        k + 2 * Max - 1 <= Len(times) => times[k + 2 * Max - 1] - times[k] >= Window

\* The last admissions are those the counter counts, within one window of its
\* start; Max before the first of them comes one of an earlier window.
Counts(entry, times) ==
    LET first == Len(times) + 1 - entry.count IN
    /\ entry.count \in 1 .. Max
    /\ first >= 1
    /\ times[first] = entry.started
    /\ times[Len(times)] < entry.started + Window
    /\ first > Max => times[first - Max] + Window <= entry.started

\* A host without a counter was last admitted a window ago or more.
Forgotten(times, t) == \A j \in 1 .. Len(times) : times[j] + Window <= t

HostOK(entry, times, t) ==
    /\ Recorded(times, t)
    /\ Spread(times)
    /\ entry = None => Forgotten(times, t)
    /\ entry # None => Counts(entry, times)

TableOK == IsFiniteSet(Known(clients)) /\ Cardinality(Known(clients)) <= MaxClients

LimiterInv ==
    /\ LimiterTypeOK
    /\ TableOK
    /\ \A c \in Clients : HostOK(clients[c], admitted[c], now)

-----------------------------------------------------------------------------
(***************************************************************************)
(* One host: what the clock, the sweep and an admission do to it.          *)
(***************************************************************************)
\* Time passes and nothing is forgotten.
LEMMA HostWaits ==
    ASSUME NEW entry, NEW times \in Seq(Nat), NEW t \in Nat, HostOK(entry, times, t)
    PROVE  HostOK(entry, times, t + 1)
<1>1. \A j \in 1 .. Len(times) : times[j] \in Nat
    OBVIOUS
<1>2. Window \in Nat
    BY LimiterAssumption
<1> QED BY <1>1, <1>2 DEF HostOK, Recorded, Forgotten

\* A counter two windows old may be dropped: its last admission is one old.
LEMMA HostSwept ==
    ASSUME NEW entry \in Counters, NEW times \in Seq(Nat), NEW t \in Nat,
           entry # None, HostOK(entry, times, t), t - entry.started >= 2 * Window
    PROVE  HostOK(None, times, t)
<1>1. \A j \in 1 .. Len(times) : times[j] \in Nat
    OBVIOUS
<1>2. Window \in Nat /\ entry.started \in Nat /\ entry.count \in Nat /\ Max \in Nat
    BY LimiterAssumption DEF Counters, Max
<1>3. Len(times) \in 1 .. Len(times)
    BY <1>2 DEF HostOK, Counts
<1>4. times[Len(times)] + Window <= t
    BY <1>1, <1>2, <1>3 DEF HostOK, Counts
<1>5. \A j \in 1 .. Len(times) : times[j] <= times[Len(times)]
    BY <1>3 DEF HostOK, Recorded
<1>6. Forgotten(times, t)
    BY <1>1, <1>2, <1>3, <1>4, <1>5 DEF Forgotten
<1> QED BY <1>6 DEF HostOK

\* What one more admission at the present time needs to keep the spread.
LEMMA SpreadGrows ==
    ASSUME NEW times \in Seq(Nat), NEW t \in Nat, Recorded(times, t), Spread(times),
           \A k \in 1 .. Len(times) : k + 2 * Max = Len(times) + 2 => times[k] + Window <= t
    PROVE  /\ Recorded(Append(times, t), t)
           /\ Spread(Append(times, t))
<1> DEFINE n == Len(times)
           more == Append(times, t)
<1>1. /\ n \in Nat /\ Window \in Nat /\ Max \in Nat \ {0}
      /\ \A j \in 1 .. n : times[j] \in Nat
    BY LimiterAssumption DEF Max
<1>2. /\ Len(more) = n + 1
      /\ \A j \in 1 .. n : more[j] = times[j]
      /\ more[n + 1] = t
    OBVIOUS
<1> HIDE DEF n, more
<1>3. /\ \A j, k \in 1 .. n : j <= k => times[j] <= times[k]
      /\ \A j \in 1 .. n : times[j] <= t
    BY DEF Recorded, n
<1>4. Recorded(more, t)
    <2>1. \A j \in 1 .. n + 1 : more[j] <= t
        <3> SUFFICES ASSUME NEW j \in 1 .. n + 1 PROVE more[j] <= t
            OBVIOUS
        <3>1. CASE j = n + 1
            BY <3>1, <1>2
        <3>2. CASE j # n + 1
            BY <3>2, <1>1, <1>2, <1>3
        <3> QED BY <3>1, <3>2
    <2>2. \A j, k \in 1 .. n + 1 : j <= k => more[j] <= more[k]
        <3> SUFFICES ASSUME NEW j \in 1 .. n + 1, NEW k \in 1 .. n + 1, j <= k
                     PROVE  more[j] <= more[k]
            OBVIOUS
        <3>1. CASE k = n + 1
            BY <3>1, <2>1, <1>2
        <3>2. CASE k # n + 1
            <4>1. j \in 1 .. n /\ k \in 1 .. n
                BY <3>2, <1>1
            <4> QED BY <4>1, <1>2, <1>3
        <3> QED BY <3>1, <3>2
    <2> QED BY <1>2, <2>1, <2>2 DEF Recorded
<1>5. Spread(more)
    <2> SUFFICES ASSUME NEW k \in 1 .. n + 1, k + 2 * Max - 1 <= n + 1
                 PROVE  more[k + 2 * Max - 1] - more[k] >= Window
        BY <1>2 DEF Spread
    <2>1. k \in 1 .. n /\ k + 2 * Max - 1 \in 1 .. n + 1
        BY <1>1
    <2>2. CASE k + 2 * Max - 1 = n + 1
        <3>1. times[k] + Window <= t
            BY <2>1, <2>2, <1>1 DEF n
        <3>2. more[k + 2 * Max - 1] = t /\ more[k] = times[k] /\ times[k] \in Nat
            BY <2>1, <2>2, <1>1, <1>2
        <3> QED BY <3>1, <3>2, <1>1
    <2>3. CASE k + 2 * Max - 1 # n + 1
        <3>1. k + 2 * Max - 1 \in 1 .. n
            BY <2>1, <2>3, <1>1
        <3>2. times[k + 2 * Max - 1] - times[k] >= Window
            BY <2>1, <3>1 DEF Spread, n
        <3> QED BY <2>1, <3>1, <3>2, <1>2
    <2> QED BY <2>2, <2>3
<1> QED BY <1>4, <1>5 DEF more

\* The first admission of a new window.
LEMMA HostRestarts ==
    ASSUME NEW entry \in Counters \cup {None}, NEW times \in Seq(Nat), NEW t \in Nat,
           HostOK(entry, times, t), entry = None \/ t - entry.started >= Window
    PROVE  HostOK([started |-> t, count |-> 1], Append(times, t), t)
<1> DEFINE n == Len(times)
           more == Append(times, t)
           new == [started |-> t, count |-> 1]
<1>1. /\ n \in Nat /\ Window \in Nat \ {0} /\ Max \in Nat \ {0}
      /\ \A j \in 1 .. n : times[j] \in Nat
    BY LimiterAssumption DEF Max
<1>2. /\ Len(more) = n + 1
      /\ \A j \in 1 .. n : more[j] = times[j]
      /\ more[n + 1] = t
    OBVIOUS
<1>3. \A k \in 1 .. n : k <= n + 1 - Max => times[k] + Window <= t
    <2> SUFFICES ASSUME NEW k \in 1 .. n, k <= n + 1 - Max
                 PROVE  times[k] + Window <= t
        OBVIOUS
    <2>1. CASE entry = None
        BY <2>1 DEF HostOK, Forgotten
    <2>2. CASE entry # None
        <3>1. entry.started \in Nat /\ t - entry.started >= Window
            BY <2>2 DEF Counters
        <3>2. /\ entry.count \in 1 .. Max /\ n + 1 - entry.count >= 1
              /\ times[n + 1 - entry.count] = entry.started
            BY <2>2 DEF HostOK, Counts
        <3>3. n + 1 - entry.count \in 1 .. n /\ k <= n + 1 - entry.count
            <4> HIDE DEF n
            <4>1. n \in Nat /\ Max \in Nat /\ k \in Nat
                BY <1>1
            <4>2. PICK count \in 1 .. Max : count = entry.count
                BY <3>2
            <4>3. n + 1 - count \in 1 .. n /\ k <= n + 1 - count
                BY <4>1, <4>2, <3>2
            <4> QED BY <4>2, <4>3
        <3>4. times[k] <= entry.started
            BY <3>2, <3>3 DEF HostOK, Recorded
        <3> QED BY <3>1, <3>4, <1>1
    <2> QED BY <2>1, <2>2
<1> HIDE DEF n, more
<1>4. Recorded(more, t) /\ Spread(more)
    <2>1. \A k \in 1 .. n : k + 2 * Max = n + 2 => times[k] + Window <= t
        BY <1>1, <1>3
    <2> QED BY <2>1, SpreadGrows DEF HostOK, n, more
<1>5. Counts(new, more)
    <2>1. new.count = 1 /\ new.started = t
        OBVIOUS
    <2> HIDE DEF new
    <2>2. n + 1 > Max => more[n + 1 - Max] + Window <= t
        <3> SUFFICES ASSUME n + 1 > Max PROVE more[n + 1 - Max] + Window <= t
            OBVIOUS
        <3>1. n + 1 - Max \in 1 .. n /\ n + 1 - Max <= n + 1 - Max
            BY <1>1
        <3> QED BY <3>1, <1>2, <1>3
    <2>3. Len(more) + 1 - new.count = n + 1
        BY <2>1, <1>1, <1>2
    <2> QED BY <2>1, <2>2, <2>3, <1>1, <1>2 DEF Counts
<1>6. new # None
    BY LimiterAssumption, new \in Counters DEF Counters
<1> QED BY <1>4, <1>5, <1>6 DEF HostOK, more

\* One more admission in the counter's window.
LEMMA HostCounts ==
    ASSUME NEW entry \in Counters, NEW times \in Seq(Nat), NEW t \in Nat,
           entry # None, HostOK(entry, times, t),
           ~(t - entry.started >= Window), entry.count < Max
    PROVE  HostOK([entry EXCEPT !.count = @ + 1], Append(times, t), t)
<1> DEFINE n == Len(times)
           more == Append(times, t)
           new == [entry EXCEPT !.count = @ + 1]
           first == n + 1 - entry.count
<1>1. /\ n \in Nat /\ Window \in Nat \ {0} /\ Max \in Nat \ {0}
      /\ \A j \in 1 .. n : times[j] \in Nat
      /\ entry.started \in Nat /\ entry.count \in Nat
    BY LimiterAssumption DEF Max, Counters
<1>2. /\ Len(more) = n + 1
      /\ \A j \in 1 .. n : more[j] = times[j]
      /\ more[n + 1] = t
    OBVIOUS
<1>3. /\ entry.count \in 1 .. Max /\ first >= 1
      /\ times[first] = entry.started
      /\ first > Max => times[first - Max] + Window <= entry.started
    BY DEF HostOK, Counts
<1>4. first \in 1 .. n
    BY <1>1, <1>3
<1>5. /\ \A j, k \in 1 .. n : j <= k => times[j] <= times[k]
      /\ \A j \in 1 .. n : times[j] <= t
    BY DEF HostOK, Recorded
<1>6. new.count = entry.count + 1 /\ new.started = entry.started /\ new \in Counters
    BY <1>1 DEF Counters
<1> HIDE DEF more, new, n
<1>7. entry.started <= t /\ t < entry.started + Window
    BY <1>1, <1>3, <1>4, <1>5
<1>8. Recorded(more, t) /\ Spread(more)
    <2>1. \A k \in 1 .. n : k + 2 * Max = n + 2 => times[k] + Window <= t
        <3> SUFFICES ASSUME NEW k \in 1 .. n, k + 2 * Max = n + 2
                     PROVE  times[k] + Window <= t
            OBVIOUS
        <3>1. first > Max /\ first - Max \in 1 .. n /\ k <= first - Max
            <4>1. PICK count \in Nat : count = entry.count /\ count < Max
                BY <1>1
            <4>2. LET f == n + 1 - count IN f > Max /\ f - Max \in 1 .. n /\ k <= f - Max
                BY <4>1, <1>1, k + 2 * Max = n + 2
            <4> QED BY <4>1, <4>2
        <3>2. times[k] <= times[first - Max]
            BY <3>1, <1>5
        <3>3. times[k] \in Nat /\ times[first - Max] \in Nat
            BY <3>1, <1>1
        <3>4. times[first - Max] + Window <= entry.started
            BY <3>1, <1>3
        <3> HIDE DEF first
        <3>5. Window \in Nat /\ entry.started \in Nat
            BY <1>1
        <3>6. \A x, y, w, start \in Nat :
                  x <= y /\ y + w <= start /\ start <= t => x + w <= t
            OBVIOUS
        <3> QED BY ONLY <3>2, <3>3, <3>4, <3>5, <3>6, <1>7
    <2> QED BY <2>1, SpreadGrows DEF HostOK, n, more
<1>9. Counts(new, more)
    <2>1. Len(more) + 1 - new.count = first
        <3>1. PICK count \in Nat : count = entry.count
            BY <1>1
        <3>2. (n + 1) + 1 - (count + 1) = n + 1 - count
            <4>1. n \in Int /\ count \in Int
                BY <1>1, <3>1
            <4> QED BY <4>1
        <3>3. Len(more) = n + 1 /\ new.count = count + 1 /\ first = n + 1 - count
            BY <1>2, <1>6, <3>1
        <3> HIDE DEF first
        <3> QED BY <3>2, <3>3
    <2>2. new.count \in 1 .. Max
        BY <1>1, <1>6
    <2>3. more[first] = new.started
        BY <1>2, <1>3, <1>4, <1>6
    <2>4. more[Len(more)] < new.started + Window
        BY <1>2, <1>6, <1>7
    <2>5. first > Max => more[first - Max] + Window <= new.started
        <3> SUFFICES ASSUME first > Max PROVE more[first - Max] + Window <= new.started
            OBVIOUS
        <3>1. first - Max \in 1 .. n
            BY <1>1, <1>4
        <3> QED BY <3>1, <1>2, <1>3, <1>6
    <2>6. first >= 1
        BY <1>3
    <2> HIDE DEF first
    <2> QED BY <2>1, <2>2, <2>3, <2>4, <2>5, <2>6 DEF Counts
<1>10. new # None
    BY LimiterAssumption, <1>6
<1> QED BY <1>8, <1>9, <1>10 DEF HostOK, more, new

-----------------------------------------------------------------------------
(***************************************************************************)
(* The table.                                                              *)
(***************************************************************************)
\* The sweep drops entries, adds none, and leaves every host in order.
LEMMA SweptOK ==
    ASSUME LimiterInv
    PROVE  /\ Swept \in [Clients -> Counters \cup {None}]
           /\ \A c \in Clients : HostOK(Swept[c], admitted[c], now)
           /\ IsFiniteSet(Known(Swept))
           /\ Cardinality(Known(Swept)) <= MaxClients
<1>1. \A c \in Clients : Swept[c] = clients[c] \/ (Swept[c] = None /\ clients[c] # None /\ Stale(clients[c]))
    BY DEF Swept
<1>2. Swept \in [Clients -> Counters \cup {None}]
    BY DEF Swept, LimiterInv, LimiterTypeOK
<1>3. \A c \in Clients : HostOK(Swept[c], admitted[c], now)
    <2> SUFFICES ASSUME NEW c \in Clients PROVE HostOK(Swept[c], admitted[c], now)
        OBVIOUS
    <2>1. /\ admitted[c] \in Seq(Nat) /\ now \in Nat /\ clients[c] \in Counters \cup {None}
          /\ HostOK(clients[c], admitted[c], now)
        BY DEF LimiterInv, LimiterTypeOK
    <2>2. CASE Swept[c] = clients[c]
        BY <2>1, <2>2
    <2>3. CASE Swept[c] = None /\ clients[c] # None /\ Stale(clients[c])
        <3>1. clients[c] \in Counters /\ now - clients[c].started >= 2 * Window
            BY <2>1, <2>3 DEF Stale
        <3>2. HostOK(None, admitted[c], now)
            BY <2>1, <2>3, <3>1, HostSwept
        <3> QED BY <3>2, <2>3
    <2> QED BY <2>2, <2>3, <1>1
<1>4. Known(Swept) \subseteq Known(clients)
    BY <1>1 DEF Known
<1>5. IsFiniteSet(Known(clients)) /\ Cardinality(Known(clients)) <= MaxClients
    BY DEF LimiterInv, TableOK
<1>6. IsFiniteSet(Known(Swept)) /\ Cardinality(Known(Swept)) <= Cardinality(Known(clients))
    BY <1>4, <1>5, FS_Subset
<1>7. /\ Cardinality(Known(Swept)) \in Nat /\ Cardinality(Known(clients)) \in Nat
      /\ MaxClients \in Nat
    BY <1>5, <1>6, FS_CardinalityType, LimiterAssumption
<1>8. Cardinality(Known(Swept)) <= MaxClients
    BY <1>5, <1>6, <1>7
<1> QED BY <1>2, <1>3, <1>6, <1>8

\* A table that takes one entry, of a host it knows or of one it has room for.
LEMMA EntryFits ==
    ASSUME NEW table \in [Clients -> Counters \cup {None}], NEW c \in Clients,
           NEW new \in Counters,
           IsFiniteSet(Known(table)), Cardinality(Known(table)) <= MaxClients,
           table[c] # None \/ ~Full(table)
    PROVE  LET after == [table EXCEPT ![c] = new] IN
           IsFiniteSet(Known(after)) /\ Cardinality(Known(after)) <= MaxClients
<1> DEFINE after == [table EXCEPT ![c] = new]
<1>1. Known(after) = Known(table) \cup {c}
    BY LimiterAssumption DEF Known
<1>2. Cardinality(Known(table)) \in Nat /\ MaxClients \in Nat
    BY FS_CardinalityType, LimiterAssumption
<1>3. CASE c \in Known(table)
    <2>1. Known(after) = Known(table)
        BY <1>1, <1>3
    <2> QED BY <2>1
<1>4. CASE c \notin Known(table)
    <2>1. ~(Cardinality(Known(table)) >= MaxClients)
        BY <1>4 DEF Full, Known
    <2>2. IsFiniteSet(Known(after)) /\ Cardinality(Known(after)) = Cardinality(Known(table)) + 1
        BY <1>1, <1>4, FS_AddElement
    <2> QED BY <1>2, <2>1, <2>2
<1> QED BY <1>3, <1>4

-----------------------------------------------------------------------------
\* Nobody is known and nobody was admitted.
LEMMA LimiterStarts == LimiterInit => LimiterInv
<1> SUFFICES ASSUME LimiterInit PROVE LimiterInv
    OBVIOUS
<1>1. LimiterTypeOK
    BY DEF LimiterInit, LimiterTypeOK
<1>2. TableOK
    <2>1. Known(clients) = {}
        BY DEF LimiterInit, Known
    <2>2. 0 <= MaxClients
        BY LimiterAssumption
    <2> QED BY <2>1, <2>2, FS_EmptySet DEF TableOK
<1>3. ASSUME NEW c \in Clients PROVE HostOK(clients[c], admitted[c], now)
    <2>1. clients[c] = None /\ admitted[c] = << >>
        BY DEF LimiterInit
    <2>2. Len(admitted[c]) = 0 /\ 1 .. 0 = {}
        BY <2>1
    <2>3. \A j \in 1 .. Len(admitted[c]) : FALSE
        BY <2>2
    <2> QED BY <2>1, <2>3 DEF HostOK, Recorded, Spread, Forgotten
<1> QED BY <1>1, <1>2, <1>3 DEF LimiterInv

\* A request that is not admitted leaves the swept table and its own counter.
LEMMA RefusalKeeps ==
    ASSUME LimiterInv, NEW c \in Clients, TurnAway(c) \/ Refuse(c)
    PROVE  LimiterInv'
<1>1. clients' = Swept
    <2>1. CASE TurnAway(c)
        BY <2>1 DEF TurnAway
    <2>2. CASE Refuse(c)
        <3>1. Counter(Swept[c]).count >= Max /\ Max \in Nat \ {0}
            BY <2>2, LimiterAssumption DEF Refuse, Max
        <3>2. Counter(Swept[c]) = Swept[c]
            BY <3>1 DEF Counter
        <3>3. Swept \in [Clients -> Counters \cup {None}]
            BY SweptOK
        <3>4. clients' = [Swept EXCEPT ![c] = Swept[c]]
            BY <2>2, <3>2 DEF Refuse
        <3> QED BY <3>3, <3>4
    <2> QED BY <2>1, <2>2
<1>2. now' = now /\ admitted' = admitted
    BY DEF TurnAway, Refuse
<1> QED BY <1>1, <1>2, SweptOK DEF LimiterInv, LimiterTypeOK, TableOK, Known

\* An admitted request: the counter goes on, or a new window begins.
LEMMA AdmissionKeeps ==
    ASSUME LimiterInv, NEW c \in Clients, Admit(c)
    PROVE  LimiterInv'
<1>1. PICK table \in [Clients -> Counters \cup {None}] : table = Swept
    BY SweptOK
<1>2. /\ table[c] # None \/ ~Full(table)
      /\ Counter(table[c]).count < Max
      /\ clients' = [table EXCEPT ![c] = [Counter(table[c]) EXCEPT !.count = @ + 1]]
      /\ admitted' = [admitted EXCEPT ![c] = Append(admitted[c], now)]
      /\ now' = now
    <2>1. Counter(Swept[c]) = Counter(table[c]) /\ Full(Swept) = Full(table)
        BY <1>1
    <2>2. clients' = [Swept EXCEPT ![c] = [Counter(Swept[c]) EXCEPT !.count = @ + 1]]
        BY DEF Admit
    <2>3. /\ Swept[c] # None \/ ~Full(Swept)
          /\ Counter(Swept[c]).count < Max
        BY DEF Admit, Max
    <2>4. admitted' = [admitted EXCEPT ![c] = Append(admitted[c], now)] /\ now' = now
        BY DEF Admit
    <2> QED BY <1>1, <2>1, <2>2, <2>3, <2>4
<1>3. /\ \A d \in Clients : HostOK(table[d], admitted[d], now)
      /\ IsFiniteSet(Known(table)) /\ Cardinality(Known(table)) <= MaxClients
    BY <1>1, SweptOK
<1>4. /\ now \in Nat /\ admitted \in [Clients -> Seq(Nat)] /\ admitted[c] \in Seq(Nat)
    BY DEF LimiterInv, LimiterTypeOK
<1>5. PICK new \in Counters : /\ clients' = [table EXCEPT ![c] = new]
                              /\ HostOK(new, Append(admitted[c], now), now)
    <2>1. CASE table[c] = None \/ now - table[c].started >= Window
        <3>1. [Counter(table[c]) EXCEPT !.count = @ + 1] = [started |-> now, count |-> 1]
            BY <2>1, <1>4 DEF Counter
        <3>2. HostOK([started |-> now, count |-> 1], Append(admitted[c], now), now)
            BY <2>1, <1>3, <1>4, HostRestarts
        <3>3. [started |-> now, count |-> 1] \in Counters
            BY <1>4 DEF Counters
        <3> QED BY <3>1, <3>2, <3>3, <1>2
    <2>2. CASE ~(table[c] = None \/ now - table[c].started >= Window)
        <3>1. Counter(table[c]) = table[c] /\ table[c] \in Counters /\ table[c] # None
            BY <2>2 DEF Counter
        <3>2. table[c].count < Max
            BY <1>2, <3>1
        <3>3. HostOK([table[c] EXCEPT !.count = @ + 1], Append(admitted[c], now), now)
            BY <2>2, <3>1, <3>2, <1>3, <1>4, HostCounts
        <3>4. [table[c] EXCEPT !.count = @ + 1] \in Counters
            BY <3>1 DEF Counters
        <3> QED BY <3>1, <3>3, <3>4, <1>2
    <2> QED BY <2>1, <2>2
<1>6. LimiterTypeOK'
    <2>1. Append(admitted[c], now) \in Seq(Nat)
        BY <1>4
    <2>2. admitted' \in [Clients -> Seq(Nat)]
        BY <1>2, <1>4, <2>1
    <2>3. clients' \in [Clients -> Counters \cup {None}]
        BY <1>5
    <2> QED BY <1>2, <1>4, <2>2, <2>3 DEF LimiterTypeOK
<1>7. TableOK'
    <2> DEFINE after == [table EXCEPT ![c] = new]
    <2>1. IsFiniteSet(Known(after)) /\ Cardinality(Known(after)) <= MaxClients
        BY <1>2, <1>3, EntryFits
    <2>2. Known(clients)' = Known(after)
        BY <1>5 DEF Known
    <2> QED BY <2>1, <2>2 DEF TableOK
<1>8. ASSUME NEW d \in Clients PROVE HostOK(clients[d], admitted[d], now)'
    <2>1. CASE d = c
        BY <2>1, <1>2, <1>4, <1>5
    <2>2. CASE d # c
        BY <2>2, <1>2, <1>3, <1>4, <1>5
    <2> QED BY <2>1, <2>2
<1> QED BY <1>6, <1>7, <1>8 DEF LimiterInv

\* Every request and every tick keeps the invariant.
LEMMA LimiterStep == LimiterInv /\ [LimiterNext]_vars => LimiterInv'
<1> SUFFICES ASSUME LimiterInv, [LimiterNext]_vars PROVE LimiterInv'
    OBVIOUS
<1>1. CASE \E c \in Clients : TurnAway(c) \/ Refuse(c)
    BY <1>1, RefusalKeeps
<1>2. CASE \E c \in Clients : Admit(c)
    BY <1>2, AdmissionKeeps
<1>3. CASE Tick
    <2>1. now \in Nat /\ now' = now + 1 /\ clients' = clients /\ admitted' = admitted
        BY <1>3 DEF Tick, LimiterInv, LimiterTypeOK
    <2>2. ASSUME NEW c \in Clients PROVE HostOK(clients[c], admitted[c], now + 1)
        BY <2>1, HostWaits DEF LimiterInv, LimiterTypeOK
    <2> QED BY <2>1, <2>2 DEF LimiterInv, LimiterTypeOK, TableOK, Known
<1>4. CASE UNCHANGED vars
    BY <1>4 DEF vars, LimiterInv, LimiterTypeOK, TableOK, Known
<1> QED BY <1>1, <1>2, <1>3, <1>4 DEF LimiterNext

\* The history and the counter of every host agree, whatever the sweep dropped
\* and wherever a window began.
THEOREM LimiterInvariant == LimiterSpec => []LimiterInv
<1> QED BY LimiterStarts, LimiterStep, PTL DEF LimiterSpec

\* The table stays within its limit, and in no stretch of one window is a host
\* admitted 2 * MaxDiscoveryPerWindow times: for any number of hosts, any window
\* and limit, and any clock.
THEOREM LimiterBounds == LimiterSpec => []LimiterHolds
<1>1. LimiterInv => LimiterHolds
    <2> SUFFICES ASSUME LimiterInv PROVE LimiterHolds
        OBVIOUS
    <2>1. Cardinality(Known(clients)) <= MaxClients
        BY DEF LimiterInv, TableOK
    <2>2. ASSUME NEW c \in Clients, NEW k \in DOMAIN admitted[c],
                 k + 2 * MaxDiscoveryPerWindow - 1 <= Len(admitted[c])
          PROVE  admitted[c][k + 2 * MaxDiscoveryPerWindow - 1] - admitted[c][k] >= Window
        <3>1. admitted[c] \in Seq(Nat) /\ Spread(admitted[c])
            BY DEF LimiterInv, LimiterTypeOK, HostOK
        <3>2. k \in 1 .. Len(admitted[c])
            BY <3>1
        <3> QED BY <2>2, <3>1, <3>2 DEF Spread, Max
    <2> QED BY <2>1, <2>2 DEF LimiterHolds
<1> QED BY <1>1, LimiterInvariant, PTL

=============================================================================
