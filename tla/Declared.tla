------------------------------ MODULE Declared ------------------------------
(***************************************************************************)
(* The operator-declared anchors (trust/internal.go): the file that        *)
(* INTERNAL_TRUST_SOURCE names, and what loading it at some time yields.   *)
(*                                                                         *)
(* A file is the sequence of its entries; one that does not parse, or has  *)
(* a key at the top that is not "anchors", is Malformed.  The bytes of a   *)
(* certificate source are the certificates they parse to.  A declaration   *)
(* (Snapshot) has a label for each role, a certificate with a type: what   *)
(* is served of the entry and is not part of the content id.  Statuses and *)
(* use cases, which an entry may state and nothing checks, are left out.   *)
(***************************************************************************)
EXTENDS Pipeline, Sequences, Functions

CONSTANTS
  Certs,          \* certificates an entry can have
  CertNotAfter,   \* CertNotAfter[c]: the end of c's validity
  AnchorTypes,    \* the EUDI anchor types
  Untyped,        \* no type, or the alias tsl_ca
  UnknownType,    \* a type that is neither
  Names,          \* names of entries
  Codes,          \* two-letter territory codes
  BadCode,        \* any other territory
  NoKey,          \* a key the entry does not have
  Unparseable,    \* bytes that are no certificate
  Unreadable,     \* a file that cannot be read
  Malformed,      \* a file that is not of the schema
  NotConfigured   \* INTERNAL_TRUST_SOURCE is not set

TypeNames == AnchorTypes \cup {Untyped, UnknownType}

\* What the bytes of a certificate source parse to.
Material == Seq(Certs) \cup {Unparseable}

Entry ==
  [name            : Names,
   known           : BOOLEAN,  \* no key but those of the schema
   type            : TypeNames \cup {NoKey},
   types           : Seq(TypeNames) \cup {NoKey},
   territory       : Codes \cup {BadCode},
   certificate     : Material \cup {NoKey},
   certificateFile : Material \cup {Unreadable, NoKey},
   validUntil      : Nat \cup {NoDate}]

File == Seq(Entry) \cup {Unreadable, Malformed, NotConfigured}

-----------------------------------------------------------------------------
\* declaredTypes: one type, or a list of EUDI types without repetition.
ValidTypes(e) ==
  IF e.types = NoKey THEN e.type # UnknownType
  ELSE /\ e.type = NoKey
       /\ e.types # <<>>
       /\ Range(e.types) \subseteq AnchorTypes
       /\ IsInjective(e.types)

DeclaredTypes(e) ==
  IF e.types # NoKey THEN Range(e.types)
  ELSE {IF e.type = NoKey THEN Untyped ELSE e.type}

\* resolveInternalCertBytes: exactly one source, which can be read.
ValidSource(e) ==
  /\ (e.certificate = NoKey) # (e.certificateFile = NoKey)
  /\ e.certificateFile # Unreadable

CertBytes(e) ==
  IF e.certificate # NoKey THEN e.certificate ELSE e.certificateFile

\* The source has one certificate.
HasCert(e) == CertBytes(e) # Unparseable /\ Len(CertBytes(e)) = 1

Cert(e) == CertBytes(e)[1]

\* validUntil cannot extend the certificate's own validity.
NotAfter(e) ==
  IF e.validUntil # NoDate /\ e.validUntil < CertNotAfter[Cert(e)]
  THEN e.validUntil
  ELSE CertNotAfter[Cert(e)]

\* The checks on one entry.
ValidEntry(e, time) ==
  /\ e.known
  /\ ValidTypes(e)
  /\ e.territory # BadCode
  /\ ValidSource(e)
  /\ HasCert(e)
  /\ time <= CertNotAfter[Cert(e)]

\* buildInternalAnchors: one anchor for each type, with the same label.
Roles(e) == {Cert(e)} \X DeclaredTypes(e)

Label(e) ==
  [name |-> e.name, territory |-> e.territory, notAfter |-> NotAfter(e)]

\* One certificate, one entry.
NoDuplicates(f) ==
  \A i, j \in DOMAIN f : Cert(f[i]) = Cert(f[j]) => i = j

\* No entry rejects the file.
Accepted(f, time) ==
  /\ f \notin {Unreadable, Malformed}
  /\ \A e \in Range(f) : ValidEntry(e, time)
  /\ NoDuplicates(f)

\* The declaration that some entries, of different certificates, make together.
DeclarationOf(entries) ==
  [r \in DeclaredRoles |->
     IF \E e \in entries : r \in Roles(e)
     THEN Label(CHOOSE e \in entries : r \in Roles(e))
     ELSE NotDeclared]

\* Mutant: an invalid entry is skipped.
LoadInternalPartial(f, time) ==
  IF f = NotConfigured THEN NothingDeclared
  ELSE IF f \in {Unreadable, Malformed} THEN LoadError
  ELSE DeclarationOf({e \in Range(f) : ValidEntry(e, time)})

\* LoadInternal: the whole file or an error.
LoadInternal(f, time) ==
  IF f = NotConfigured THEN NothingDeclared
  ELSE IF ~Accepted(f, time) THEN LoadError
  ELSE DeclarationOf(Range(f))
=============================================================================
