----------------------------- MODULE HostsFile ------------------------------
(***************************************************************************)
(* What readHosts (dns/hosts.go) makes of the lines of /etc/hosts, and how *)
(* the lookups read its two maps.                                          *)
(*                                                                         *)
(* A line is its fields: addr, and the names after it.  An address         *)
(* has a spelling and a value, a spelling outside DOMAIN Value does not    *)
(* parse.  A name is [base, dots, rooted, upper]: dots says whether it has *)
(* an inner dot, rooted whether it ends in one.                            *)
(***************************************************************************)
EXTENDS Integers, Sequences, SequencesExt

CONSTANT Value  \* function from the spellings of addresses to addresses

\* "" for what is not an address.
parseLiteralIP(addr) == IF addr \in DOMAIN Value THEN Value[addr] ELSE ""

\* A name with a dot anywhere is made to end in one.
absDomainName(name) == [name EXCEPT !.rooted = name.dots \/ name.rooted]

Key(name) == absDomainName([name EXCEPT !.upper = FALSE])

\* One name of a line: its address is added to the entry of the name, which keeps
\* the canonical name of the line that mentioned it first.
AddName_latestCanonical(maps, addr, name, canonical) ==
    LET key  == Key(name)
        seen == key \in DOMAIN maps.byName
    IN  [byName |-> [k \in DOMAIN maps.byName \cup {key} |->
            IF k # key THEN maps.byName[k]
            ELSE [addrs |-> IF seen THEN Append(maps.byName[k].addrs, addr) ELSE <<addr>>,
                  canonical |-> canonical]],
         byAddr |-> [a \in DOMAIN maps.byAddr \cup {addr} |->
            IF a # addr THEN maps.byAddr[a]
            ELSE (IF a \in DOMAIN maps.byAddr THEN maps.byAddr[a] ELSE <<>>)
                     \o <<absDomainName(name)>>]]
AddName(maps, addr, name, canonical) ==
    LET key  == Key(name)
        seen == key \in DOMAIN maps.byName
    IN  [byName |-> [k \in DOMAIN maps.byName \cup {key} |->
            IF k # key THEN maps.byName[k]
            ELSE IF seen THEN [maps.byName[k] EXCEPT !.addrs = Append(@, addr)]
            ELSE [addrs |-> <<addr>>, canonical |-> canonical]],
         byAddr |-> [a \in DOMAIN maps.byAddr \cup {addr} |->
            IF a # addr THEN maps.byAddr[a]
            ELSE (IF a \in DOMAIN maps.byAddr THEN maps.byAddr[a] ELSE <<>>)
                     \o <<absDomainName(name)>>]]

AddNames(maps, addr, names, canonical) ==
    FoldLeft(LAMBDA m, name : AddName(m, addr, name, canonical), maps, names)

AddLine(maps, line) ==
    LET addr == parseLiteralIP(line.addr)
    IN  IF line.names = <<>> \/ addr = "" THEN maps
        ELSE AddNames(maps, addr, line.names, Key(line.names[1]))

NoEntries == [byName |-> <<>>, byAddr |-> <<>>]

readHosts(lines) == FoldLeft(AddLine, NoEntries, lines)

lookupStaticHost(maps, host) ==
    IF Key(host) \in DOMAIN maps.byName THEN maps.byName[Key(host)]
    ELSE [addrs |-> <<>>, canonical |-> <<>>]

lookupStaticAddr(maps, addr) ==
    IF parseLiteralIP(addr) \in DOMAIN maps.byAddr THEN maps.byAddr[parseLiteralIP(addr)]
    ELSE <<>>
=============================================================================
