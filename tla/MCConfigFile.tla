---------------------------- MODULE MCConfigFile ----------------------------
(***************************************************************************)
(* Every bounded resolv.conf is a state; the property says of each that    *)
(* what dnsReadConfig makes of it can be used.                             *)
(***************************************************************************)
EXTENDS ConfigFile

CONSTANTS
    Lines,     \* the lines a file may have
    MaxLines   \* bound on the lines of a file

VARIABLE lines

\* The options whose number is read.
Numbered == {"ndots:", "timeout:", "attempts:"}

ASSUME LinesAssumption ==
    /\ MaxLines \in Nat
    /\ \A line \in Lines :
           /\ IsSeq(line) /\ line # <<>>
           /\ line[1] = "options" =>
                  \A opt \in ToSet(Tail(line)) :
                      opt[1] \in STRING /\ (opt[1] \in Numbered => opt[2] \in Int)

FileInit == lines \in [1..MaxLines -> Lines]

\* The next file has one line less.
FileNext == \E k \in DOMAIN lines : lines' = RemoveAt(lines, k)

FileSpec == FileInit /\ [][FileNext]_lines

\* The file asks for a timeout that does not fit a Duration.
AsksTooLong(file) ==
    \E line \in ToSet(file) :
        /\ line[1] = "options"
        /\ \E opt \in ToSet(Tail(line)) : opt[1] = "timeout:" /\ opt[2] * Second > MaxInt

\* The file, or the host's name, has the root for a domain to search.
NamesRoot(file) ==
    \/ "." \in ToSet(HostDomain)
    \/ \E line \in ToSet(file) : line[1] = "domain" /\ Tail(line) # <<>> /\ line[2] = "."

(* Whatever resolv.conf holds, the configuration can be used: one to three *)
(* servers, at least one attempt, a sensible ndots, a timeout of a second  *)
(* or more unless the file asks for one that does not fit a Duration, and  *)
(* no root among the suffixes, unless "domain" or the host's own name puts *)
(* it there.  A line that is not scanned cannot be to blame.               *)
ConfUsable ==
    LET read == dnsReadConfig(lines)
        file == Scanned(lines)
    IN  /\ Len(read.servers) \in 1..3
        /\ ToSet(read.servers) \subseteq Addrs \cup ToSet(defaultNS)
        /\ read.attempts >= 1 /\ read.ndots \in 0..15
        /\ read.timeout >= Second \/ AsksTooLong(file)
        /\ "." \in ToSet(read.search) => NamesRoot(file)
=============================================================================
