---------------------------- MODULE AddressLookup ----------------------------
(***************************************************************************)
(* How a lookup walks the search list: goLookupIPCNAMEOrder and            *)
(* goLookupPTR of dns/golookup.go, lookup and nameList of                  *)
(* dns/dnsclient_unix.go and the Lookup methods of dns/lookup.go that call *)
(* them.  Asking the servers for one name and type is tryOneName, which    *)
(* QueryLoop models; here it is an outcome:                                *)
(*   "records"    a reply the caller reads records from                    *)
(*   "garbled"    a reply taken, whose answers then do not parse           *)
(*   "notfound", "temporary", "permanent"   the errors                     *)
(*                                                                         *)
(* A name is what the walk looks at: its text's identity and length, its   *)
(* dots, the final one (rooted), whether it ends in .onion and whether     *)
(* isDomainName accepts it.                                                *)
(***************************************************************************)
EXTENDS Naturals, Sequences, SequencesExt, Filter

CONSTANTS
    Names,    \* [id, len, dots, rooted, onion, valid]: the names looked up
    Searches, \* lists of suffixes [id, len, onion], each ending in a dot
    NDots     \* values of the ndots option

\* An entry of a search list is not empty: ensureRooted leaves a dot.
ASSUME AddressAssumption ==
    /\ \A name \in Names : name.len \in Nat /\ {name.rooted, name.onion, name.valid} \subseteq BOOLEAN
    /\ \A search \in Searches : search \in Seq(ToSet(search))
    /\ \A search \in Searches : \A suffix \in ToSet(search) : suffix.id # "" /\ suffix.len \in Nat

Networks == {"ip", "ip4", "ip6", "CNAME", "typed", "ptr"}
Outcomes == {"records", "garbled", "notfound", "temporary", "permanent"}

VARIABLES
    call,    \* [network, name, strict, search, ndots]: the call and its configuration
    hosts,   \* what the hosts file has of the name that is of use: "none" or "listed"
    pc,      \* "hosts", "ask" or "done"
    at,      \* <<n, t>>: place in the name list and in the query types
    lastErr, \* <<>>, or the error kept so far
    records, \* the replies records were taken from, in order
    asked,   \* every question asked, with its outcome
    result   \* <<>>, <<"hosts">>, <<"ok", records>>, <<"error", question>>, <<"no such host">>,
             \* <<"cannot unmarshal">> or, of a PTR lookup, <<"unrecognized address">>

vars == <<call, hosts, pc, at, lastErr, records, asked, result>>

\* A PTR lookup is of the rooted name reverseaddr makes; what is no address
\* has none.
Calls ==
    {c \in [network : Networks, name : Names, strict : BOOLEAN, search : Searches, ndots : NDots] :
        c.network = "ptr" => (c.name.rooted /\ ~c.name.onion) \/ ~c.name.valid}

Init ==
    /\ call \in Calls /\ hosts \in {"none", "listed"}
    /\ pc = "hosts" /\ at = <<1, 1>>
    /\ lastErr = <<>> /\ records = <<>> /\ asked = <<>> /\ result = <<>>

-----------------------------------------------------------------------------
\* "" is the suffix of the name itself; len counts the final dot.
FQDN(name, suffix) ==
    [id |-> <<name.id, suffix.id>>,
     len |-> name.len + (IF name.rooted THEN 0 ELSE 1) + suffix.len,
     onion |-> IF suffix.id = "" THEN name.onion ELSE suffix.onion]
Itself(name) == FQDN(name, [id |-> "", len |-> 0, onion |-> FALSE])

avoidDNS(fqdn) == fqdn.onion

Unsuffixed(c) == IF avoidDNS(Itself(c.name)) THEN <<>> ELSE <<Itself(c.name)>>
Suffixed(c) ==
    LET forms == [k \in DOMAIN c.search |-> FQDN(c.name, c.search[k])]
    IN  Only(forms, {f \in ToSet(forms) : ~avoidDNS(f) /\ f.len <= 254})

nameList_suffixFirst(c) == Suffixed(c) \o Unsuffixed(c)
nameList(c) ==
    CASE Itself(c.name).len > 254 -> <<>>
      [] Itself(c.name).len <= 254 /\ c.name.rooted -> Unsuffixed(c)
      [] Itself(c.name).len <= 254 /\ ~c.name.rooted ->
             IF c.name.dots >= c.ndots THEN Unsuffixed(c) \o Suffixed(c)
             ELSE Suffixed(c) \o Unsuffixed(c)

qtypes(network) ==
    CASE network = "ip"    -> <<"A", "AAAA">>
      [] network = "ip4"   -> <<"A">>
      [] network = "ip6"   -> <<"AAAA">>
      [] network = "CNAME" -> <<"A", "AAAA", "CNAME">>
      [] network = "typed" -> <<"T">>      \* LookupNS, MX, TXT, SRV, SOA and so on
      [] network = "ptr"   -> <<"PTR">>

Addresses == call.network \in {"ip", "ip4", "ip6", "CNAME"}
List == nameList(call)
Types == qtypes(call.network)

Finish(r) == pc' = "done" /\ result' = r

-----------------------------------------------------------------------------
\* lookupStaticHost and lookupStaticAddr come first, except for the typed
\* lookups.  Addresses with a zone do not parse and count for nothing.
FromHosts ==
    /\ pc = "hosts" /\ hosts = "listed" /\ call.network # "typed"
    /\ Finish(<<"hosts">>)
    /\ UNCHANGED <<call, hosts, at, lastErr, records, asked>>

\* On to DNS: not with a name that is none, and with nobody to ask the
\* address lookups say so, where lookup hands its caller an empty parser.
ToDNS ==
    /\ pc = "hosts" /\ (hosts # "listed" \/ call.network = "typed")
    /\ CASE ~call.name.valid ->
                Finish(IF call.network = "ptr" THEN <<"unrecognized address">> ELSE <<"no such host">>)
         [] call.name.valid /\ List = <<>> ->
                Finish(IF Addresses THEN <<"no such host">> ELSE <<"cannot unmarshal">>)
         [] OTHER -> pc' = "ask" /\ UNCHANGED result
    /\ UNCHANGED <<call, hosts, at, lastErr, records, asked>>

\* The end of goLookupIPCNAMEOrder and lookup; e is the error kept.
Result(recs, e) == IF recs # <<>> THEN <<"ok", recs>> ELSE <<"error", e>>

Advance_firstFailureEnds(recs, e) == Finish(Result(recs, e)) /\ UNCHANGED at
Advance_goesOn(recs, e) ==
    CASE at[2] < Len(Types) -> at' = <<at[1], at[2] + 1>> /\ UNCHANGED <<pc, result>>
      [] at[2] = Len(Types) /\ at[1] < Len(List) ->
             at' = <<at[1] + 1, 1>> /\ UNCHANGED <<pc, result>>
      [] OTHER -> Finish(Result(recs, e)) /\ UNCHANGED at
Advance(recs, e) ==
    CASE at[2] < Len(Types) -> at' = <<at[1], at[2] + 1>> /\ UNCHANGED <<pc, result>>
      [] at[2] = Len(Types) /\ recs = <<>> /\ at[1] < Len(List) ->
             at' = <<at[1] + 1, 1>> /\ UNCHANGED <<pc, result>>
      [] OTHER -> Finish(Result(recs, e)) /\ UNCHANGED at

\* lookup keeps the last error; goLookupIPCNAMEOrder the first, unless it is
\* about the name itself, told by the dot it puts behind an unrooted one.
Kept(old, e) ==
    IF ~Addresses \/ old = <<>> \/ (~call.name.rooted /\ e.fqdn = Itself(call.name))
    THEN e ELSE old

Ask ==
    /\ pc = "ask"
    /\ \E o \in Outcomes :
        LET q == [fqdn |-> List[at[1]], qtype |-> Types[at[2]], outcome |-> o]
        IN  /\ asked' = Append(asked, q)
            /\ CASE o = "temporary" /\ call.strict ->
                        Finish(<<"error", q>>) /\ UNCHANGED <<at, lastErr, records>>
                 [] o = "garbled" ->
                        Finish(<<"cannot unmarshal">>) /\ UNCHANGED <<at, lastErr, records>>
                 [] o = "records" ->
                        /\ records' = Append(records, q)
                        /\ Advance(records', lastErr) /\ UNCHANGED lastErr
                 [] OTHER ->
                        /\ lastErr' = Kept(lastErr, q)
                        /\ Advance(records, lastErr') /\ UNCHANGED records
    /\ UNCHANGED <<call, hosts>>

Done == pc = "done" /\ UNCHANGED vars

Next == FromHosts \/ ToDNS \/ Ask \/ Done

Spec == Init /\ [][Next]_vars

-----------------------------------------------------------------------------
Failed(q) == q.outcome \in {"notfound", "temporary", "permanent"}

\* Where the question for the n-th name and t-th type is asked; the names
\* before the n-th take the places up to Place(n, 0).
Place(n, t) == (n - 1) * Len(Types) + t

\* asked[m] is the question due at its place.
InTurn(m) ==
    \E n \in DOMAIN List, t \in DOMAIN Types :
        m = Place(n, t) /\ asked[m].fqdn = List[n] /\ asked[m].qtype = Types[t]

(* The records returned are all there are of one name, of every type it    *)
(* answered; every name before it in the search order was asked for every  *)
(* type and had none, and no name after it was asked for anything.  (The   *)
(* break in goLookupIPCNAMEOrder and lookup.)                              *)
FirstAnswerWins ==
    result # <<>> /\ result[1] = "ok" =>
        /\ result[2] # <<>>
        /\ result[2] = Only(asked, {q \in ToSet(asked) : q.outcome = "records"})
        /\ \E n \in DOMAIN List :
               /\ Len(asked) = Place(n, Len(Types))
               /\ \A m \in DOMAIN asked : /\ InTurn(m)
                                          /\ m <= Place(n, 0) => Failed(asked[m])

(* A lookup fails only when it has nothing left to ask: every name of the  *)
(* list was asked for every type and failed, in the order of the list,     *)
(* unless a reply was garbled or the resolver is strict and a server's     *)
(* trouble temporary; that question is then the last one and, if strict,   *)
(* the error returned.  The error returned is one that was met, and that   *)
(* of an exhausted address lookup of an unrooted name is one the name      *)
(* itself met, not a name made up with a suffix, whichever is asked first. *)
(* (The loops of goLookupIPCNAMEOrder, with its test fqdn == name+".", and *)
(* of lookup.)                                                             *)
FailsOnlyAtTheEnd ==
    result # <<>> /\ result[1] # "ok" /\ asked # <<>> =>
        LET last == asked[Len(asked)]
        IN  CASE last.outcome = "garbled" -> result = <<"cannot unmarshal">>
              [] call.strict /\ last.outcome = "temporary" -> result[2] = last
              [] OTHER -> /\ Len(asked) = Place(Len(List), Len(Types))
                          /\ \A m \in DOMAIN asked : Failed(asked[m]) /\ InTurn(m)
                          /\ result[2] \in ToSet(asked)
                          /\ Addresses /\ ~call.name.rooted /\ ~call.name.onion
                                 => result[2].fqdn = Itself(call.name)

(* Nothing is asked of DNS that is an .onion name, longer than a name may  *)
(* be, listed usably in the hosts file or, for a rooted name, made longer; *)
(* and a name with dots enough is asked before its suffixed forms, one     *)
(* with fewer after them.  (nameList and avoidDNS.)                        *)
OnlyProperQuestions ==
    /\ \A q \in ToSet(asked) :
           /\ ~q.fqdn.onion /\ q.fqdn.len <= 254
           /\ call.name.rooted => q.fqdn = Itself(call.name)
           /\ hosts = "listed" => call.network = "typed"
    /\ \A j, k \in DOMAIN asked :
           asked[j].fqdn = Itself(call.name) /\ asked[k].fqdn # Itself(call.name) =>
               (j < k <=> call.name.dots >= call.ndots)
=============================================================================
