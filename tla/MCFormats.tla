----------------------------- MODULE MCFormats ------------------------------
(***************************************************************************)
(* The pure parts of the program on bounded inputs, one state each: the    *)
(* replies of MCReply, the files of MCConfigFile and MCHostsFile, the      *)
(* lists of MCRecords, the names of MCNames, the record bodies of          *)
(* MCBodies.                                                               *)
(***************************************************************************)
EXTENDS MCReply, MCConfigFile, MCHostsFile, MCRecords, MCNames, MCBodies

----------------------------------------------------------------------------
\* Record bodies.

BodyValues ==
    [u8 |-> {0, 200}, u16 |-> {1, 513}, u32 |-> {7, 65537},
     str |-> {<<>>, <<97>>, <<97, 98>>}, name |-> {<<>>, <<<<97>>>>, <<<<97, 98>>, <<99>>>>},
     params |-> {<<>>, <<<<1, <<>>>>>>, <<<<1, <<97>>>>, <<513, <<98, 99>>>>>>},
     rest |-> {<<>>, <<1, 2>>}]

----------------------------------------------------------------------------
\* Names: labels around every limit, and four long ones around that of a name.

Label(len, lead, trail, chars, digits, upper) ==
    [len |-> len, lead |-> lead, trail |-> trail, chars |-> chars, digits |-> digits,
     upper |-> upper, com |-> FALSE]
Plain(len) == Label(len, "letter", "alnum", "ldh", FALSE, FALSE)
EmptyLabel == Label(0, "none", "none", "ldh", FALSE, FALSE)

Labels ==
    {Com, [Com EXCEPT !.upper = TRUE], Plain(1), [Plain(1) EXCEPT !.upper = TRUE],
     Label(2, "digit", "alnum", "ldh", TRUE, FALSE), Plain(63), Plain(64),
     Label(2, "-", "alnum", "ldh", FALSE, FALSE), Label(2, "letter", "-", "ldh", FALSE, FALSE),
     Label(2, "_", "alnum", "underscore", FALSE, FALSE),
     Label(2, "letter", "alnum", "other", FALSE, FALSE), EmptyLabel}

FormatTexts ==
    {t \in [labels : BoundedSeq(Labels, 3) \cup [1..4 -> {Plain(n) : n \in 61..63}], dot : BOOLEAN] :
        t.labels # <<EmptyLabel>> /\ (t.labels # <<>> /\ Last(t.labels) = EmptyLabel => t.dot)}

----------------------------------------------------------------------------
\* The files.

ConfAddrs == {"ip1", "ip2"}
ConfDefault == <<"127.0.0.1", "[::1]">>
ConfHostDomain == <<"host.">>

ConfLines ==
    {<<"nameserver", "ip1">>, <<"nameserver", "name">>, <<"nameserver">>, <<"domain", "d.">>,
     <<"domain", ".">>, <<"domain">>, <<"search", ".">>, <<"search", "s.", ".", "t.">>, <<"huge">>, <<"what">>,
     <<"lookup", "bind">>,
     <<"options", <<"ndots:", -1>>, <<"attempts:", 500>>>>,
     <<"options", <<"ndots:", 16>>, <<"attempts:", 0>>>>,
     <<"options", <<"timeout:", 0>>, <<"rotate">>>>, <<"options", <<"timeout:", 12>>, <<"tcp">>>>,
     <<"options", <<"timeout:", 13>>, <<"new">>>>, <<"options", <<"timeout:", 200>>>>}

HostsValue == [s \in {"::1", "0::1", "10.0.0.1"} |-> IF s = "0::1" THEN "::1" ELSE s]

Name(base, dots, rooted, upper) ==
    [base |-> base, dots |-> dots, rooted |-> rooted, upper |-> upper]

HostsNames ==
    {Name("h", FALSE, FALSE, FALSE), Name("h", FALSE, TRUE, TRUE),
     Name("d.x", TRUE, FALSE, FALSE), Name("d.x", TRUE, TRUE, TRUE)}

HostsSpellings == DOMAIN HostsValue \cup {"bogus"}

----------------------------------------------------------------------------
NoReply == reply = [rcode |-> "success", aa |-> TRUE, ra |-> TRUE, answers |-> <<>>, adds |-> <<>>]
NoFile  == lines = <<>>
NoHosts == hosts = <<>>
NoList  == list = <<>>
NoText  == text = [labels |-> <<>>, dot |-> FALSE]
NoBody  == body = [layout |-> <<>>, values |-> <<>>]

FormatsInit ==
    \/ ReplyInit /\ NoFile   /\ NoHosts   /\ NoList      /\ NoText    /\ NoBody
    \/ NoReply   /\ FileInit /\ NoHosts   /\ NoList      /\ NoText    /\ NoBody
    \/ NoReply   /\ NoFile   /\ HostsInit /\ NoList      /\ NoText    /\ NoBody
    \/ NoReply   /\ NoFile   /\ NoHosts   /\ RecordsInit /\ NoText    /\ NoBody
    \/ NoReply   /\ NoFile   /\ NoHosts   /\ NoList      /\ NamesInit /\ NoBody
    \/ NoReply   /\ NoFile   /\ NoHosts   /\ NoList      /\ NoText    /\ BodyInit

FormatsNext ==
    \/ ReplyNext   /\ UNCHANGED <<lines, hosts, list, text, body>>
    \/ FileNext    /\ UNCHANGED <<reply, hosts, list, text, body>>
    \/ HostsNext   /\ UNCHANGED <<reply, lines, list, text, body>>
    \/ RecordsNext /\ UNCHANGED <<reply, lines, hosts, text, body>>
    \/ NamesNext   /\ UNCHANGED <<reply, lines, hosts, list, body>>
    \/ BodyNext    /\ UNCHANGED <<reply, lines, hosts, list, text>>

FormatsSpec == FormatsInit /\ [][FormatsNext]_<<reply, lines, hosts, list, text, body>>
=============================================================================
