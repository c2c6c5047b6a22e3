------------------------------ MODULE MCReply -------------------------------
(***************************************************************************)
(* Every bounded reply is a state; the properties compare the verdict of   *)
(* the code with what the reply says, defined without walking it.          *)
(***************************************************************************)
EXTENDS Answers

VARIABLE reply

ReplyInit == reply \in {r \in Replies : Len(r.answers) = MaxAnswers}

\* The next reply to judge has one record less among its answers.
ReplyNext ==
    \E k \in DOMAIN reply.answers :
        reply' = [reply EXCEPT !.answers = RemoveAt(@, k)]

ReplySpec == ReplyInit /\ [][ReplyNext]_reply

Positions(x) == {k \in DOMAIN reply.answers : reply.answers[k] = x}

(* A verdict that ends the search is justified.  "No such host" takes an   *)
(* NXDOMAIN, or a success without any record of the type asked for that    *)
(* comes before trouble, and never a lame referral, a server's failure or  *)
(* a reply whose extended code is an error.  A reply is taken only with    *)
(* code success and a record of the type, and not when an OPT record that  *)
(* can be reached raises the code.  (checkHeader and skipToAnswer.)        *)
VerdictJustified ==
    /\ Verdict(reply, QType) = "notfound" =>
           \/ reply.rcode = "nxdomain"
           \/ /\ reply.rcode = "success"
              /\ Positions(QType) = {} /\ Positions("bad") = {} /\ Positions("short") = {}
              /\ reply.aa \/ reply.ra \/ reply.answers # <<>> \/ reply.adds # <<>>
    /\ Verdict(reply, QType) = "ok" =>
           /\ reply.rcode = "success" /\ Positions(QType) # {}
           /\ reply.adds # <<>> /\ Head(reply.adds) = "badvers" =>
                  Positions("bad") \cup Positions("short") # {}

(* Answers come whole or not at all.  A record of the type asked for       *)
(* before any damage is never passed over, however many records of other   *)
(* types come first; once the reply is taken, a lookup returns every       *)
(* record of the type, in order, or an error, one damaged record costing   *)
(* the others; and an address lookup for the same type returns them too,   *)
(* and where an alias led to them, the owner of the first is the canonical *)
(* name.  Without an alias the code makes no difference, but lookup.go:468 *)
(* promises an empty string then, so nothing is said of that case.         *)
(* LookupRecords walks past a PTR record, whichever type is asked for, so  *)
(* it agrees with the typed lookups for the other types only.              *)
(* (skipToAnswer and the loops of dns/lookup.go and dns/golookup.go.)      *)
AnswersAreWhole ==
    LET damaged == Positions("bad") \cup Positions("short")
    IN  /\ /\ reply.rcode = "success"
           /\ \A k \in DOMAIN reply.adds : reply.adds[k] # "badvers"
           /\ \E k \in Positions(QType) : \A l \in damaged : k < l
           => Verdict(reply, QType) = "ok"
        /\ Verdict(reply, QType) = "ok" =>
               \A mangled \in SUBSET Positions(QType) :
                   LET out  == goLookupTyped(reply, QType, mangled)
                       both == parseAddressAnswers(reply, QType, mangled)
                   IN  /\ out.ok <=> damaged \cup mangled = {}
                       /\ out.ok => /\ ToSet(out.records) = Positions(QType)
                                    /\ \A i, j \in DOMAIN out.records :
                                           i < j => out.records[i] < out.records[j]
                       /\ QType # "PTR" => parseGenericAnswers(reply, QType, mangled) = out
                       /\ QType \in Addresses /\ both.ok =>
                              /\ ToSet(out.records) \subseteq ToSet(both.records)
                              /\ (\E c \in Positions("CNAME") : c < both.records[1])
                                 => CanonicalName(reply, QType, mangled) = <<"owner", both.records[1]>>
=============================================================================
