---------------------------- MODULE CredentialVault ----------------------------
(***************************************************************************)
(* The credential vault (backend/verine/vault/store.py) and the endpoints  *)
(* that write it (api/verine_routes.py 51-86).                             *)
(*                                                                         *)
(* A credential is one document.  Patching it and recording the outcome of *)
(* a test both read the document, change some fields and write all of it   *)
(* back.  Patches, creations and deletions run in the thread pool; a test  *)
(* is a coroutine that waits for the provider between taking the key and   *)
(* recording the outcome, and holds the event loop while it records.       *)
(***************************************************************************)
EXTENDS FiniteSets

CONSTANTS
    Credentials,   \* ids, drawn at random and so never issued twice
    Workers,       \* threads that serve a patch
    Tests,         \* coroutines that test a credential
    Keys,          \* values of the fields that a patch may set, taken as one
    Responses,     \* what a provider may answer to a request
    Absent         \* no document, no request, a field a patch leaves alone

Verdicts == {"untested", "success", "auth_error", "error", "unreachable"}

ASSUME VaultAssumption ==
    /\ Workers \cap Tests = {}
    /\ Responses \subseteq {"answer", "denied", "error status", "oversized",
                          "unreachable", "malformed"}
    /\ Absent \notin Keys \cup Verdicts

VARIABLES
    vault,      \* credential -> its document
    issued,     \* ids handed out
    held,       \* request between its read and its write -> copy and change
    testing,    \* test that waits for its provider -> credential
    asked,      \* credential -> its document as the answered requests left it
    overlapped  \* credentials written by a request while another held a copy

vaultVars == <<vault, issued, held, testing, asked, overlapped>>

Writers == Workers \cup Tests
Documents == [key : Keys, verdict : Verdicts]
Changes == [key : Keys \cup {Absent}, verdict : Verdicts \cup {Absent}]
Patch(key) == [key |-> key, verdict |-> Absent]
Outcome(verdict) == [key |-> Absent, verdict |-> verdict]

\* The fields a change names replace those of the document.  A new key leaves
\* the verdict of the last test alone.
Changed(doc, change) ==
    [key     |-> IF change.key = Absent THEN doc.key ELSE change.key,
     verdict |-> IF change.verdict = Absent THEN doc.verdict ELSE change.verdict]

\* No test is between the read and the write of its outcome.
LoopFree == \A t \in Tests : held[t] = Absent

Holders(cred) == {w \in Writers : held[w] # Absent /\ held[w].cred = cred}

VaultInit ==
    /\ vault = [cred \in Credentials |-> Absent]
    /\ issued = {}
    /\ held = [w \in Writers |-> Absent]
    /\ testing = [t \in Tests |-> Absent]
    /\ asked = [cred \in Credentials |-> Absent]
    /\ overlapped = {}
-------------------------------------------------------------------------------
(* The adapters *)

\* A response that a status of 400 or more, or its size, disqualifies raises; so
\* do no response at all and one that does not parse.
Accepted(response) == response = "answer"

\* What the health check makes of a response.  One that does not parse is not
\* caught.
Verdict(response) ==
    CASE Accepted(response) -> "success"
      [] response = "denied" -> "auth_error"
      [] response \in {"error status", "oversized"} -> "error"
      [] response = "unreachable" -> "unreachable"
-------------------------------------------------------------------------------
(* POST and DELETE: one write each *)

Create(cred, key) ==
    /\ cred \notin issued
    /\ vault' = [vault EXCEPT ![cred] = [key |-> key, verdict |-> "untested"]]
    /\ asked' = [asked EXCEPT ![cred] = vault'[cred]]
    /\ issued' = issued \cup {cred}
    /\ UNCHANGED <<held, testing, overlapped>>

Delete(cred) ==
    /\ vault[cred] # Absent
    /\ vault' = [vault EXCEPT ![cred] = Absent]
    /\ asked' = [asked EXCEPT ![cred] = Absent]
    /\ overlapped' = IF Holders(cred) = {} THEN overlapped ELSE overlapped \cup {cred}
    /\ UNCHANGED <<issued, held, testing>>
-------------------------------------------------------------------------------
(* update and record_test: read, change, write back *)

Read(w, cred, change) ==
    /\ held[w] = Absent
    /\ vault[cred] # Absent
    /\ held' = [held EXCEPT ![w] = [cred |-> cred, copy |-> vault[cred], change |-> change]]
    /\ overlapped' = IF Holders(cred) = {} THEN overlapped ELSE overlapped \cup {cred}

WriteBack(w) ==
    LET cred == held[w].cred IN
    /\ held[w] # Absent
    /\ vault' = [vault EXCEPT ![cred] = Changed(held[w].copy, held[w].change)]
    /\ asked' = [asked EXCEPT ![cred] =
                   IF @ = Absent THEN Absent ELSE Changed(@, held[w].change)]
    /\ held' = [held EXCEPT ![w] = Absent]
    /\ UNCHANGED <<issued, testing, overlapped>>

PatchReads(w, cred, key) ==
    /\ Read(w, cred, Patch(key))
    /\ UNCHANGED <<vault, issued, testing, asked>>

\* A test whose credential is gone, or whose vault is locked, ends before it
\* waits, and takes no step here.
TestBegins(t, cred) ==
    /\ LoopFree /\ testing[t] = Absent
    /\ vault[cred] # Absent
    /\ testing' = [testing EXCEPT ![t] = [cred |-> cred, copy |-> vault[cred]]]
    /\ UNCHANGED <<vault, issued, held, asked, overlapped>>

\* The document taken before the wait is written back.
TestKeepsCopy(t, response) ==
    /\ LoopFree /\ testing[t] # Absent /\ response # "malformed"
    /\ held' = [held EXCEPT ![t] = [cred |-> testing[t].cred, copy |-> testing[t].copy,
                                    change |-> Outcome(Verdict(response))]]
    /\ testing' = [testing EXCEPT ![t] = Absent]
    /\ UNCHANGED <<vault, issued, asked, overlapped>>

\* The health check answers, and record_test reads the document again.
TestAnswered(t, response) ==
    /\ LoopFree /\ testing[t] # Absent /\ response # "malformed"
    /\ Read(t, testing[t].cred, Outcome(Verdict(response)))
    /\ testing' = [testing EXCEPT ![t] = Absent]
    /\ UNCHANGED <<vault, issued, asked>>

\* The health check raises what it does not catch, or the credential is gone.
TestFails(t) ==
    /\ LoopFree /\ testing[t] # Absent
    /\ testing' = [testing EXCEPT ![t] = Absent]
    /\ UNCHANGED <<vault, issued, held, asked, overlapped>>

VaultNext ==
    \/ \E cred \in Credentials :
          \/ \E key \in Keys : Create(cred, key)
          \/ Delete(cred)
          \/ \E w \in Workers, key \in Keys : PatchReads(w, cred, key)
          \/ \E t \in Tests : TestBegins(t, cred)
    \/ \E w \in Writers : WriteBack(w)
    \/ \E t \in Tests :
          \/ \E response \in Responses : TestAnswered(t, response)
          \/ TestFails(t)
-------------------------------------------------------------------------------
(* Properties *)

VaultTypeOK ==
    /\ vault \in [Credentials -> Documents \cup {Absent}]
    /\ issued \in SUBSET Credentials
    /\ held \in [Writers -> [cred : Credentials, copy : Documents, change : Changes] \cup {Absent}]
    /\ testing \in [Tests -> [cred : Credentials, copy : Documents] \cup {Absent}]
    /\ asked \in [Credentials -> Documents \cup {Absent}]
    /\ overlapped \in SUBSET Credentials

\* As long as no request read a credential while another stood between its read
\* and its write, the stored document is the one the answered requests add up to:
\* no replaced key returns, no deleted credential is written again, and no patch
\* is lost, also not to a test that waited for its provider meanwhile.
AsLastAsked ==
    \A cred \in Credentials \ overlapped : vault[cred] = asked[cred]
=============================================================================
