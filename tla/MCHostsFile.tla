---------------------------- MODULE MCHostsFile -----------------------------
(***************************************************************************)
(* Every bounded /etc/hosts is a state; the property says of each that the *)
(* maps readHosts makes of it agree.                                       *)
(***************************************************************************)
EXTENDS HostsFile, Filter

CONSTANTS
    Spellings,   \* first fields of lines: addresses, and what is none
    HostNames,   \* the names a line may have
    MaxHosts,    \* bound on the lines of a file
    MaxNames     \* bound on the names of a line

ASSUME SpellingsAssumption ==
    /\ DOMAIN Value \subseteq Spellings
    /\ \A a \in DOMAIN Value : Value[a] # ""
    /\ HostNames \subseteq [base : {n.base : n \in HostNames},
                            dots : BOOLEAN, rooted : BOOLEAN, upper : BOOLEAN]
    /\ MaxHosts \in Nat /\ MaxNames \in Nat

VARIABLE hosts

HostsInit ==
    hosts \in [1..MaxHosts -> [addr : Spellings, names : BoundedSeq(HostNames, MaxNames)]]

\* The next file has one line less.
HostsNext == \E k \in DOMAIN hosts : hosts' = RemoveAt(hosts, k)

HostsSpec == HostsInit /\ [][HostsNext]_hosts

\* As they are printed, the names with this key.
Printed(key) == {p \in {absDomainName(n) : n \in HostNames} : Key(p) = key}

Mentions(s, K) == Len(Only(s, K))

(* The two maps of /etc/hosts are each other's inverse up to the spelling  *)
(* of names and addresses, mention for mention; a canonical name has an    *)
(* entry and an address in common with the name it is for; and no later    *)
(* line changes it.                                                        *)
HostsMutual ==
    LET maps == readHosts(hosts)
        before == readHosts(SubSeq(hosts, 1, Len(hosts) - 1))
    IN  /\ \A n \in HostNames : \A a \in DOMAIN Value :
               Mentions(lookupStaticHost(maps, n).addrs, {Value[a]})
               = Mentions(lookupStaticAddr(maps, a), Printed(Key(n)))
        /\ \A k \in DOMAIN maps.byName :
               LET c == maps.byName[k].canonical
               IN  /\ c \in DOMAIN maps.byName
                   /\ ToSet(maps.byName[c].addrs) \cap ToSet(maps.byName[k].addrs) # {}
        /\ \A k \in DOMAIN before.byName :
               /\ k \in DOMAIN maps.byName
               /\ maps.byName[k].canonical = before.byName[k].canonical
=============================================================================
