---------------------------- MODULE SortRecords -----------------------------
(***************************************************************************)
(* The order of MX and SRV records (dns/sort.go) as a function of the      *)
(* records and of the random numbers drawn, draws[i] being the i-th result *)
(* of randInt.  A record is [pref, weight, id]; MX records use pref only.  *)
(***************************************************************************)
EXTENDS Integers, Filter

randIntn(n, draw) == draw % n

Swap(s, i, j) == [s EXCEPT ![i] = s[j], ![j] = s[i]]

\* slices.SortFunc with a dozen elements or less, by insertion: each goes before
\* those so far that come after it, after[r] of a record r.
Insert(sorted, r, after) ==
    Append(Only(sorted, ToSet(sorted) \ after[r]), r) \o Only(sorted, after[r])
SortFunc(out, after) == FoldLeft(LAMBDA sorted, r : Insert(sorted, r, after), <<>>, out)

ByPref(out) == [r \in ToSet(out) |-> {q \in ToSet(out) : q.pref > r.pref}]

ByPriorityWeight(out) ==
    [r \in ToSet(out) |-> {q \in ToSet(out) : \/ q.pref > r.pref
                                              \/ q.pref = r.pref /\ q.weight > r.weight}]

Shuffled_wideDraw(out, draws) ==
    FoldLeft(LAMBDA s, i : Swap(s, i, 1 + randIntn(Len(out), draws[i])),
             out, [i \in DOMAIN out |-> i])
\* The inside-out shuffle.
Shuffled(out, draws) ==
    FoldLeft(LAMBDA s, i : Swap(s, i, 1 + randIntn(i, draws[i])), out, [i \in DOMAIN out |-> i])

sortMXRecords(out, draws) == SortFunc(Shuffled(out, draws), ByPref(out))

Weights(s) == Total([i \in DOMAIN s |-> s[i].weight])

Chosen_atLeast(s, n) ==
    CHOOSE i \in DOMAIN s :
        Weights(SubSeq(s, 1, i)) >= n /\ \A k \in 1..(i - 1) : Weights(SubSeq(s, 1, k)) < n
\* The first record at which the running weight exceeds n.
Chosen(s, n) ==
    CHOOSE i \in DOMAIN s :
        Weights(SubSeq(s, 1, i)) > n /\ Weights(SubSeq(s, 1, i - 1)) <= n

\* Each round swaps the chosen record to the front and goes on without it, until
\* no weight or a single record is left.
Round(acc, draw) ==
    LET sum == Weights(acc.rest)
        i   == Chosen(acc.rest, randIntn(sum, draw))
    IN  IF sum = 0 \/ Len(acc.rest) <= 1 THEN acc
        ELSE [placed |-> Append(acc.placed, acc.rest[i]), rest |-> Tail(Swap(acc.rest, 1, i))]

shuffleByWeight(out, draws) ==
    LET done == FoldLeft(Round, [placed |-> <<>>, rest |-> out], draws)
    IN  done.placed \o done.rest

\* The run of out[i]'s priority, if it starts at i, gets shuffled, with draws of
\* its own: those at its positions.
Bucket(out, i) == Only(out, {r \in ToSet(out) : r.pref = out[i].pref})
DrawsFrom(draws, i, n) == [k \in 1..(n + 1 - i) |-> draws[i + k - 1]]
AddBucket(done, i, out, draws) ==
    IF i = 1 \/ out[i - 1].pref # out[i].pref
    THEN done \o shuffleByWeight(Bucket(out, i), DrawsFrom(draws, i, Len(out)))
    ELSE done

\* By priority and weight, then each run of one priority is shuffled.
sortSRVRecords(out, draws) ==
    LET sorted == SortFunc(out, ByPriorityWeight(out))
    IN  FoldLeft(LAMBDA done, i : AddBucket(done, i, sorted, draws), <<>>,
                 [i \in DOMAIN out |-> i])
=============================================================================
