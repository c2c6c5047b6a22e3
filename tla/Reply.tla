------------------------------- MODULE Reply --------------------------------
(***************************************************************************)
(* How the query loop reads a reply: checkHeader, skipToAnswer and         *)
(* extractExtendedRCode of dns/dnsclient_unix.go, as operators on a reply  *)
(* abstracted to what they look at.                                        *)
(*                                                                         *)
(* A section is the sequence of its record types as the parser walks it;   *)
(* "bad" stands for a record whose header does not parse and "short" for   *)
(* one whose body does not fit, so that skipping it fails.  An OPT record  *)
(* of the additional section carries the upper bits of the response code.  *)
(***************************************************************************)
EXTENDS Sequences, SequencesExt

CONSTANTS
    Types,      \* record types a query may ask for
    QType,      \* the type asked for
    MaxAnswers, \* bound on the records of the answer section
    MaxAdds     \* bound on the records of the additional section

ASSUME ReplyAssumption ==
    /\ MaxAnswers \in Nat /\ MaxAdds \in Nat /\ QType \in Types
    /\ Types \cap {"bad", "short", "opt", "other"} = {}

RCodes == {"success", "nxdomain", "servfail", "refused"}

\* The code of the extended header: that of the message, unless the OPT record
\* raises it (BADVERS and the like are none of the codes above).
Additionals == {"opt", "badvers", "other", "bad"}

AnswerTypes == Types \cup {"bad", "short"}

\* ra and aa are the RA and AA bits of the header.
Replies ==
    [rcode : RCodes, aa : BOOLEAN, ra : BOOLEAN,
     answers : BoundedSeq(AnswerTypes, MaxAnswers),
     adds : BoundedSeq(Additionals, MaxAdds)]

\* The sequence up to its first element in stop, which is left out.
Before(s, stop) ==
    LET k == SelectInSeq(s, LAMBDA x : x \in stop)
    IN  IF k = 0 THEN s ELSE SubSeq(s, 1, k - 1)

\* The additional records the parser gets to: none when skipping the answers
\* stops at one that does not parse.
Reached(r) ==
    IF Before(r.answers, {"bad", "short"}) = r.answers THEN Before(r.adds, {"bad"}) ELSE <<>>

HasAdditional(r) == Reached(r) # <<>>

\* The first OPT record decides.
Raised(r) ==
    LET k == SelectInSeq(Reached(r), LAMBDA a : a \in {"opt", "badvers"})
    IN  k # 0 /\ Reached(r)[k] = "badvers"

ExtendedRCode(r) == IF Raised(r) THEN "badvers" ELSE r.rcode

\* p.AnswerHeader fails for another reason than the end of the section.
FirstIsBad(r) == Len(r.answers) > 0 /\ r.answers[1] = "bad"

CheckHeader_noLame(r) ==
    IF ExtendedRCode(r) = "nxdomain" THEN "notfound"
    ELSE IF FirstIsBad(r) THEN "unmarshal"
    ELSE CASE ExtendedRCode(r) = "success"   -> "ok"
           [] ExtendedRCode(r) = "servfail"  -> "temporary"
           [] OTHER                          -> "misbehaving"

CheckHeader(r) ==
    LET code == ExtendedRCode(r)
        lame == ~r.aa /\ ~r.ra /\ r.answers = <<>> /\ ~HasAdditional(r)
    IN  IF code = "nxdomain" THEN "notfound"
        ELSE IF FirstIsBad(r) THEN "unmarshal"
        ELSE CASE code = "success"   -> IF lame THEN "lame" ELSE "ok"
               [] code = "servfail"  -> "temporary"
               [] OTHER              -> "misbehaving"

\* skipToAnswer walks past records of other types, a chain of aliases say.
SkipToAnswer(r, qtype) ==
    LET passed == Before(r.answers, {qtype, "bad", "short"})
        k      == Len(passed) + 1
    IN  IF k > Len(r.answers) THEN "notfound"
        ELSE IF r.answers[k] = qtype THEN "ok"
        ELSE "unmarshal"

\* What the body of tryOneName's loop makes of a reply.
Verdict(r, qtype) ==
    IF CheckHeader(r) = "ok" THEN SkipToAnswer(r, qtype) ELSE CheckHeader(r)

Conclusive == {"ok", "notfound"}
=============================================================================
