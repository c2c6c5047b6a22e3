------------------------------- MODULE Names --------------------------------
(***************************************************************************)
(* Names in text: what the grammar of internal/grammar accepts, how a      *)
(* parsed Domain is printed and turned into a name to query, and what the  *)
(* resolver itself takes for a domain name (dns/dnsclient.go).             *)
(*                                                                         *)
(* A text is its labels, what stands between the dots, and whether one     *)
(* more dot follows them; a label is abstracted to what the checks look    *)
(* at: its length, whether it is made of digits only, where it has         *)
(* hyphens, whether it has capitals, whether it is "com" in some case, and *)
(* whether it has an underscore (which isDomainName alone takes) or some   *)
(* other character (which nothing takes).                                  *)
(***************************************************************************)
EXTENDS Integers, Filter

MaxLabelOctets  == 63
MaxDomainOctets == 253

Invalid == <<"invalid">>

\* strings.ToLower
Lower(label) == [label EXCEPT !.upper = FALSE]

Octets(labels) == Total([i \in DOMAIN labels |-> labels[i].len + 1])

\* let_dig , { let_dig_hyp }: the grammar lets a label end in a hyphen.
IsLabel(label) == label.len > 0 /\ label.lead \in {"letter", "digit"} /\ label.chars = "ldh"

validateLabel(label) ==
    label.len \in 1..MaxLabelOctets /\ label.lead # "-" /\ label.trail # "-"

validateDomain(labels) ==
    /\ labels # <<>> /\ \A i \in DOMAIN labels : validateLabel(labels[i])
    /\ Octets(labels) - 1 <= MaxDomainOctets

\* The one known TLD is an enumeration value, any other a string.
tldFromLabel(label) ==
    IF label.com THEN <<"internet", "COM">> ELSE <<"custom", label>>

Com == [len |-> 3, lead |-> "letter", trail |-> "alnum", chars |-> "ldh",
        digits |-> FALSE, upper |-> FALSE, com |-> TRUE]

\* The labels a TLD adds to a name: none for the enumeration's None.
tldString(tld) ==
    CASE tld = <<"internet", "COM">>  -> <<Com>>
      [] tld = <<"internet", "None">> -> <<>>
      [] tld[1] = "custom"            -> <<tld[2]>>

\* domain = label , { "." , label } , [ "." ], then the length limits.
ParseDomain(text) ==
    LET all == [i \in DOMAIN text.labels |-> Lower(text.labels[i])]
    IN  IF \/ \E i \in DOMAIN text.labels : ~IsLabel(text.labels[i])
           \/ ~validateDomain(text.labels)
        THEN Invalid
        ELSE <<"domain", [hostname |-> all, labels |-> Front(all),
                          tld |-> tldFromLabel(Last(all)), fq |-> text.dot]>>

\* A single label, which is then the TLD.
ParseHostname(text) ==
    IF Len(text.labels) # 1 \/ text.dot THEN Invalid
    ELSE IF ~IsLabel(text.labels[1]) \/ ~validateLabel(text.labels[1]) THEN Invalid
    ELSE <<"domain", [hostname |-> <<Lower(text.labels[1])>>, labels |-> <<>>,
                      tld |-> tldFromLabel(Lower(text.labels[1])), fq |-> FALSE]>>

\* A TLD must start with a letter, which the last label of a domain need not.
ParseTLD(label) ==
    IF ~IsLabel(label) \/ label.lead # "letter" \/ ~validateLabel(label) THEN Invalid
    ELSE tldFromLabel(Lower(label))

\* The labels as the structured fields give them.
Parts(d) == d.labels \o tldString(d.tld)

PrintDomain(d) ==
    [labels |-> IF Parts(d) = <<>> THEN d.hostname ELSE Parts(d), dot |-> d.fq]

\* The name a typed query asks for: rooted, so that no suffix is tried.
canonicalName(d) ==
    LET name == IF Parts(d) = <<>> THEN d.hostname ELSE Parts(d)
    IN  [labels |-> name, dot |-> name # <<>>]

\* The length of the text, dots included.
Length(text) ==
    Octets(text.labels) - (IF text.labels = <<>> \/ text.dot THEN 0 ELSE 1)
        + (IF text.labels = <<>> /\ text.dot THEN 1 ELSE 0)

isDomainName_short(text) ==
    \/ text.labels = <<>> /\ text.dot
    \/ /\ Length(text) \in 1..253
       /\ \A i \in DOMAIN text.labels :
              validateLabel(text.labels[i]) /\ text.labels[i].chars \in {"ldh", "underscore"}
       /\ \E i \in DOMAIN text.labels : ~text.labels[i].digits
isDomainName(text) ==
    \/ text.labels = <<>> /\ text.dot
    \/ /\ Length(text) \in 1..254 /\ (Length(text) = 254 => text.dot)
       /\ \A i \in DOMAIN text.labels :
              validateLabel(text.labels[i]) /\ text.labels[i].chars \in {"ldh", "underscore"}
       /\ \E i \in DOMAIN text.labels : ~text.labels[i].digits
=============================================================================
