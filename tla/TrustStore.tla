----------------------------- MODULE TrustStore -----------------------------
(***************************************************************************)
(* The certificates of OPC UA clients, a file each in data/pki/trusted or  *)
(* data/pki/rejected, and the two processes that work on these files       *)
(* without a lock.  The verifier of the runtime looks a certificate up     *)
(* when a client connects and stores one it does not know (trust on first  *)
(* use); the routes under /api/pki move and delete the files.              *)
(*                                                                         *)
(* Each look at the file system and each change of it is a step.  A file   *)
(* is missing, whole, or holds a part of the certificate; rename moves an  *)
(* open file along with its name.                                          *)
(***************************************************************************)
EXTENDS FiniteSets

CONSTANTS
  Certs,    \* certificates, each with its thumbprint
  NoCert

VARIABLES
  trusted,    \* the files of the trust store
  rejected,   \* the files of the reject store
  verifying,  \* what tofu_verify_certificate does next
  client,     \* the certificate it is about
  file,       \* where the file it writes is by now
  verdict,    \* what it answered last
  seen,       \* was the certificate rejected? The answers since it began
  handling,   \* what the handler of a route does next
  subject,    \* the certificate the request is about
  cut         \* certificates with a file whose writing did not end

stores == <<trusted, rejected>>
verifier == <<verifying, client, file, verdict, seen>>
handler == <<handling, subject>>
storeVars == <<stores, verifier, handler, cut>>

File == {"none", "part", "whole"}
Handling == {"idle", "trust", "trustMissing", "trustMove", "reject", "rejectMove",
             "delete", "deleteOther", "deleteTrusted", "deleteRejected", "signal"}

StoreTypeOK ==
  /\ trusted \in [Certs -> File] /\ rejected \in [Certs -> File]
  /\ verifying \in {"idle", "rejected?", "trusted?", "open", "write"}
  /\ client \in Certs \cup {NoCert} /\ (verifying = "idle" <=> client = NoCert)
  /\ file \in {"none", "trusted", "rejected", "gone"}
  /\ file # "none" <=> verifying = "write"
  /\ verdict \in {"none", "good", "bad", "denied"}
  /\ seen \subseteq BOOLEAN
  /\ handling \in Handling
  /\ subject \in Certs \cup {NoCert} /\ (handling = "idle" <=> subject = NoCert)
  /\ cut \subseteq Certs

Rejected(c) == rejected[c] # "none"
Trusted(c) == trusted[c] # "none"

StoreInit ==
  /\ trusted = [c \in Certs |-> "none"]
  /\ rejected = [c \in Certs |-> "none"]
  /\ verifying = "idle" /\ client = NoCert /\ file = "none"
  /\ verdict = "none" /\ seen = {}
  /\ handling = "idle" /\ subject = NoCert
  /\ cut = {}

-----------------------------------------------------------------------------
(* What a step that changes the stores means to a verification under way.  *)
Witnessed == seen' = IF verifying = "idle" THEN seen ELSE seen \cup {rejected'[client] # "none"}

Answer(v) == verifying' = "idle" /\ client' = NoCert /\ seen' = {} /\ verdict' = v

GoOn(next) == verifying' = next /\ UNCHANGED <<client, seen, verdict>>

(* A client connects: tofu_verify_certificate is called. *)
Verify(c) ==
  /\ verifying = "idle"
  /\ verifying' = "rejected?" /\ client' = c
  /\ verdict' = "none" /\ seen' = {Rejected(c)}
  /\ UNCHANGED <<stores, file, handler, cut>>

(* One of the directories cannot be read. *)
Unreadable ==
  /\ verifying = "rejected?" /\ Answer("denied")
  /\ UNCHANGED <<stores, file, handler, cut>>

Bug_TrustPrevails ==
  /\ verifying = "rejected?"
  /\ IF Rejected(client) /\ ~Trusted(client) THEN Answer("bad")
     ELSE GoOn("trusted?")
  /\ UNCHANGED <<stores, file, handler, cut>>

LookUpRejected ==
  /\ verifying = "rejected?"
  /\ IF Rejected(client) THEN Answer("bad")
     ELSE GoOn("trusted?")
  /\ UNCHANGED <<stores, file, handler, cut>>

LookUpTrusted ==
  /\ verifying = "trusted?"
  /\ IF Trusted(client) THEN Answer("good")
     ELSE GoOn("open")
  /\ UNCHANGED <<stores, file, handler, cut>>

(* fopen for writing makes the file or empties it. *)
Open ==
  /\ verifying = "open"
  /\ GoOn("write") /\ file' = "trusted"
  /\ trusted' = [trusted EXCEPT ![client] = "part"]
  /\ UNCHANGED <<rejected, handler, cut>>

OpenFails ==
  /\ verifying = "open" /\ Answer("good")
  /\ UNCHANGED <<stores, file, handler, cut>>

(* The file is written wherever it has been moved in the meantime. *)
Written(place, store, content) ==
  IF file = place THEN [store EXCEPT ![client] = content] ELSE store

Bug_WriteForgetsClose(whole) ==
  /\ verifying = "write" /\ Answer("good") /\ file' = "none"
  /\ cut' = IF whole \/ file = "gone" THEN cut ELSE cut \cup {client}
  /\ UNCHANGED <<stores, handler>>

(* fwrite and fclose; a full disk leaves a part, and the answer is the same. *)
Write(whole) ==
  /\ verifying = "write" /\ Answer("good") /\ file' = "none"
  /\ LET content == IF whole THEN "whole" ELSE "part"
     IN trusted' = Written("trusted", trusted, content)
          /\ rejected' = Written("rejected", rejected, content)
  /\ cut' = IF whole \/ file = "gone" THEN cut ELSE cut \cup {client}
  /\ UNCHANGED handler

(* The runtime ends in the middle of it. *)
Abort ==
  /\ Answer("none") /\ file' = "none"
  /\ cut' = IF file \in {"trusted", "rejected"} THEN cut \cup {client} ELSE cut
  /\ UNCHANGED <<stores, handler>>

-----------------------------------------------------------------------------
Ask(request, c) ==
  /\ handling = "idle"
  /\ handling' = request /\ subject' = c
  /\ UNCHANGED <<stores, verifier, cut>>

(* statSync or existsSync: the handler goes on by what it finds. *)
Look(at, found, next, otherwise) ==
  /\ handling = at
  /\ handling' = IF found THEN next ELSE otherwise
  /\ subject' = IF handling' = "idle" THEN NoCert ELSE subject
  /\ UNCHANGED <<stores, verifier, cut>>

(* Where the file under the verifier's hands is after a change of stores. *)
Carried(from, to) ==
  IF subject # client \/ file \notin {from, to} THEN file
  ELSE IF file = from THEN to ELSE "gone"

LookUp ==
  \/ Look("trust", Rejected(subject), "trustMissing", "idle")
  \/ Look("trustMissing", Trusted(subject), "idle", "trustMove")
  \/ Look("reject", Trusted(subject), "rejectMove", "idle")
  \/ Look("delete", Trusted(subject), "deleteTrusted", "deleteOther")
  \/ Look("deleteOther", Rejected(subject), "deleteRejected", "idle")

(* renameSync replaces the file it finds in the other store. *)
trustCertificate ==
  /\ handling = "trustMove" /\ handling' = "signal"
  /\ trusted' = [trusted EXCEPT ![subject] = rejected[subject]]
  /\ rejected' = [rejected EXCEPT ![subject] = "none"]
  /\ file' = Carried("rejected", "trusted")
  /\ Witnessed
  /\ UNCHANGED <<verifying, client, verdict, subject, cut>>

Bug_RejectUnlinksFirst ==
  /\ handling = "rejectMove"
  /\ trusted' = [trusted EXCEPT ![subject] = "none"]
  /\ rejected' = IF Trusted(subject) THEN rejected ELSE [rejected EXCEPT ![subject] = "whole"]
  /\ handling' = IF Trusted(subject) THEN "rejectMove" ELSE "signal"
  /\ file' = Carried("trusted", "gone")
  /\ Witnessed
  /\ UNCHANGED <<verifying, client, verdict, subject, cut>>

rejectCertificate ==
  /\ handling = "rejectMove" /\ handling' = "signal"
  /\ rejected' = [rejected EXCEPT ![subject] = trusted[subject]]
  /\ trusted' = [trusted EXCEPT ![subject] = "none"]
  /\ file' = Carried("trusted", "rejected")
  /\ Witnessed
  /\ UNCHANGED <<verifying, client, verdict, subject, cut>>

deleteCertificate ==
  /\ handling \in {"deleteTrusted", "deleteRejected"} /\ handling' = "signal"
  /\ IF handling = "deleteTrusted"
     THEN /\ trusted' = [trusted EXCEPT ![subject] = "none"]
          /\ file' = Carried("trusted", "gone")
          /\ UNCHANGED rejected
     ELSE /\ rejected' = [rejected EXCEPT ![subject] = "none"]
          /\ file' = Carried("rejected", "gone")
          /\ UNCHANGED trusted
  /\ Witnessed
  /\ UNCHANGED <<verifying, client, verdict, subject, cut>>

(* An error of the file system is a 500; the end of the API looks the same. *)
RequestFails ==
  /\ handling \notin {"idle", "signal"} /\ handling' = "idle" /\ subject' = NoCert
  /\ UNCHANGED <<stores, verifier, cut>>

(* The request ends once the runtime was told, see RuntimeInputs. *)
Signalled ==
  /\ handling = "signal" /\ handling' = "idle" /\ subject' = NoCert
  /\ UNCHANGED <<stores, verifier, cut>>

VerifierStep ==
  Unreadable \/ LookUpRejected \/ LookUpTrusted \/ Open \/ OpenFails \/ \E whole \in BOOLEAN : Write(whole)

HandlerStep ==
  LookUp \/ trustCertificate \/ rejectCertificate \/ deleteCertificate \/ RequestFails

-----------------------------------------------------------------------------
Stored(c) == Trusted(c) \/ Rejected(c)

(* What GET /api/pki/certificates shows: files it cannot parse are skipped. *)
listCertificates ==
  {<<c, "trusted">> : c \in {d \in Certs : trusted[d] = "whole"}}
    \cup {<<c, "rejected">> : c \in {d \in Certs : rejected[d] = "whole"}}

(***************************************************************************)
(* The verdict was right at some moment of the verification, although the  *)
(* files moved under it: "good" only if the certificate was not rejected   *)
(* all the time, "bad" only if it was rejected at some time.  In both      *)
(* stores it counts as rejected.                                           *)
(***************************************************************************)
VerdictIsTimely ==
  [][verifying # "idle" /\ verifying' = "idle" =>
       /\ verdict' = "good" => FALSE \in seen
       /\ verdict' = "bad" => TRUE \in seen]_storeVars

(***************************************************************************)
(* A certificate the stores know is forgotten by DELETE alone, whatever    *)
(* moves and verifications overlap, fail or are cut short; and only a      *)
(* request to trust or delete it ends its rejection.                       *)
(***************************************************************************)
NothingLost ==
  [][\A c \in Certs :
       /\ Stored(c) /\ ~Stored(c)' => handling \in {"deleteTrusted", "deleteRejected"} /\ subject = c
       /\ Rejected(c) /\ ~Rejected(c)' => handling \in {"trustMove", "deleteRejected"} /\ subject = c]_storeVars

(***************************************************************************)
(* A stored certificate can be seen by the operator, unless it is just     *)
(* being written or a crash or a full disk left a piece of it.             *)
(***************************************************************************)
ListedUnlessCut ==
  \A c \in Certs :
    Stored(c) => \/ <<c, "trusted">> \in listCertificates \/ <<c, "rejected">> \in listCertificates
                 \/ file # "none" /\ client = c
                 \/ c \in cut
=============================================================================
