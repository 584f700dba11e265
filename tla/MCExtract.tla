----------------------------- MODULE MCExtract ------------------------------
(***************************************************************************)
(* Small instances of Extract.                                             *)
(***************************************************************************)
EXTENDS Extract, TLC

NationalStatus ==
  ("granted" :> "recognised") @@ ("withdrawn" :> "deprecated")

Key == ("CA/QC" :> "untyped") @@ ("EAA/Q" :> "qeaa_provider")
         @@ ("EAA" :> "eaa_provider")

Cert(n) == [fp |-> n, read |-> "parsed"]

Entry(name, kind, certs, uses, qualifiers) ==
  [name |-> name, type |-> kind[1], status |-> kind[2], certs |-> certs,
   uses |-> uses, qualifiers |-> qualifiers]

CertLists ==
  {<<>>, <<Cert(1)>>, <<Cert(2), Cert(1)>>, <<[fp |-> 1, read |-> "held"]>>,
   <<[fp |-> 1, read |-> "refused"]>>,
   <<[fp |-> 1, read |-> "refused"], Cert(2)>>,
   <<[fp |-> 0, read |-> "undecodable"], Cert(1)>>}

\* Two entries of every kind, also of a type that is not admitted, and with
\* the status of the other plane.
Pairs ==
  LET entries ==
        {Entry(n, k, c, x[1], x[2]) :
           n \in {1, 2},
           k \in {<<"CA/QC", "granted">>, <<"CA/QC", "withdrawn">>,
                  <<"CA/QC", "recognised">>, <<"EAA", "recognised">>,
                  <<"EAA", "granted">>, <<"TSA", "granted">>},
           c \in CertLists,
           x \in {<<{}, <<>>>>, <<{"seal"}, <<"QSCD">>>>}}
  IN  {<<a, b>> : a \in entries, b \in entries}

\* Three entries of one service: all orders of equal elements.
Triples ==
  LET entries ==
        {Entry(1, k, c, x[1], x[2]) :
           k \in {<<"CA/QC", "granted">>, <<"CA/QC", "withdrawn">>},
           c \in {<<Cert(1)>>, <<Cert(2), Cert(1)>>},
           x \in {<<{}, <<>>>>, <<{"seal"}, <<"QSCD">>>>,
                  <<{"signature"}, <<"QSCD", "SSCD">>>>}}
  IN  {<<a, b, c>> : a \in entries, b \in entries, c \in entries}

AllLists == Pairs \cup Triples \cup {<<>>}

\* An entry with two certificates and some qualifiers, and each certificate
\* once more in an entry that has another.
SharedLists ==
  {<<Entry(1, <<"CA/QC", "granted">>, <<Cert(1), Cert(2)>>, {}, q),
     Entry(2, <<"CA/QC", "granted">>, <<Cert(1)>>, {}, <<"d">>),
     Entry(3, <<"CA/QC", "granted">>, <<Cert(2)>>, {}, <<"e">>)>> :
     q \in {<<>>, <<"a">>, <<"a", "b">>, <<"a", "b", "c">>}}
=============================================================================
