----------------------------- MODULE ConfigFile -----------------------------
(***************************************************************************)
(* What dnsReadConfig (dns/dnsconfig_unix.go) makes of resolv.conf.        *)
(*                                                                         *)
(* A file is a sequence of lines, each its fields: the directive and its   *)
(* arguments, or <<"huge">> for a line longer than the scanner's buffer,   *)
(* at which scanning stops without an error.  Addresses and domains are    *)
(* values, the latter as ensureRooted leaves them; an argument of          *)
(* "nameserver" outside Addrs does not parse.  Comments are left out, and  *)
(* so is the list "lookup" sets, which nothing reads.                      *)
(***************************************************************************)
EXTENDS Integers, Sequences, SequencesExt, Filter

CONSTANTS
    Addrs,          \* the arguments that parse as an IP address
    defaultNS,      \* the servers used when the file names none
    HostDomain,     \* search list from the host's own name, <<>> when it has no dot
    Second,         \* a second in the unit of time.Duration
    MaxInt          \* the largest int; int is signed and wraps around

IsSeq(s) == Len(s) \in Nat /\ s = [k \in 1..Len(s) |-> s[k]]

ASSUME ConfigFileAssumption ==
    /\ IsSeq(defaultNS) /\ Len(defaultNS) \in 1..3 /\ IsSeq(HostDomain)
    /\ Second \in Nat \ {0} /\ MaxInt \in Nat /\ 5 * Second <= MaxInt

\* The value of a product of ints.
Wrapped(n) == ((n + MaxInt + 1) % (2 * MaxInt + 2)) - (MaxInt + 1)

AtLeast(low, n) == IF n < low THEN low ELSE n
AtMost(high, n) == IF n > high THEN high ELSE n

\* strconv.Atoi, whose error is ignored: a number out of range gives the nearest
\* int.  (An argument that is no number gives 0, and is not told apart from it.)
Atoi(arg) == AtMost(MaxInt, AtLeast(-(MaxInt + 1), arg))

Default ==
    [servers |-> <<>>, search |-> <<>>, ndots |-> 1, timeout |-> Wrapped(5 * Second),
     attempts |-> 2, flags |-> {}]

\* The flags of the configuration an option sets; any other option is unknown.
Flag(opt) ==
    CASE opt = "rotate"                                      -> {"rotate"}
      [] opt \in {"single-request", "single-request-reopen"} -> {"singleRequest"}
      [] opt \in {"use-vc", "usevc", "tcp"}                  -> {"useTCP"}
      [] opt = "trust-ad"                                    -> {"trustAD"}
      [] opt = "edns0"                                       -> {}
      [] opt = "no-reload"                                   -> {"noReload"}
      [] OTHER                                               -> {"unknownOpt"}

\* One word of an "options" line: a name, and a number where it has one.
Option(cfg, opt) ==
    CASE opt[1] = "ndots:"    -> [cfg EXCEPT !.ndots = AtMost(15, AtLeast(0, Atoi(opt[2])))]
      [] opt[1] = "timeout:"  ->
             [cfg EXCEPT !.timeout = Wrapped(AtLeast(1, Atoi(opt[2])) * Second)]
      [] opt[1] = "attempts:" -> [cfg EXCEPT !.attempts = AtLeast(1, Atoi(opt[2]))]
      [] OTHER                -> [cfg EXCEPT !.flags = @ \cup Flag(opt[1])]

\* "." is the root.
Directive_manyServers(cfg, line) ==
    LET args == Tail(line)
    IN  CASE line[1] = "nameserver" ->
             IF args # <<>> /\ args[1] \in Addrs
             THEN [cfg EXCEPT !.servers = Append(@, args[1])] ELSE cfg
          [] line[1] = "domain"  -> IF args = <<>> THEN cfg ELSE [cfg EXCEPT !.search = <<args[1]>>]
          [] line[1] = "search"  ->
             [cfg EXCEPT !.search = Only(args, ToSet(args) \ {"."})]
          [] line[1] = "options" -> FoldLeft(Option, cfg, args)
          [] line[1] = "lookup"  -> cfg
          [] OTHER               -> [cfg EXCEPT !.flags = @ \cup {"unknownOpt"}]
Directive(cfg, line) ==
    LET args == Tail(line)
    IN  CASE line[1] = "nameserver" ->
             IF args # <<>> /\ Len(cfg.servers) < 3 /\ args[1] \in Addrs
             THEN [cfg EXCEPT !.servers = Append(@, args[1])] ELSE cfg
          [] line[1] = "domain"  -> IF args = <<>> THEN cfg ELSE [cfg EXCEPT !.search = <<args[1]>>]
          [] line[1] = "search"  ->
             [cfg EXCEPT !.search = Only(args, ToSet(args) \ {"."})]
          [] line[1] = "options" -> FoldLeft(Option, cfg, args)
          [] line[1] = "lookup"  -> cfg
          [] OTHER               -> [cfg EXCEPT !.flags = @ \cup {"unknownOpt"}]

dnsDefaultSearch == HostDomain

OrDefault(s, default) == IF s = <<>> THEN default ELSE s

\* The lines the scanner gets to.
Scanned(lines) ==
    LET k == SelectInSeq(lines, LAMBDA line : line = <<"huge">>)
    IN  IF k = 0 THEN lines ELSE SubSeq(lines, 1, k - 1)

\* A file that cannot be opened reads as one without lines.
dnsReadConfig(lines) ==
    LET cfg == FoldLeft(Directive, Default, Scanned(lines))
    IN  [cfg EXCEPT !.servers = OrDefault(@, defaultNS),
                     !.search  = OrDefault(@, dnsDefaultSearch)]
=============================================================================
