---------------------------- MODULE FunctionStore ----------------------------
(***************************************************************************)
(* The stub api server (stubs/apiserver.go): functions as directories of a *)
(* disk, created and read by concurrent requests, and the resource names   *)
(* (brn) by which they are found.                                          *)
(*                                                                         *)
(* A name is the sequence of what its colons separate. Its parts are       *)
(* classes of strings: hashed account IDs (32 characters), numbers, words. *)
(***************************************************************************)
EXTENDS Naturals, Sequences, FiniteSets

CONSTANTS
    Creators, Getters,      \* requests
    Functions,              \* function names, words
    Hashes,                 \* hashed account IDs
    StubHash,               \* Md5BceUid(functionUid), the account of all stored functions
    Codes,                  \* codes that are uploaded
    ArgVersions,            \* Version of the arguments; "" for none
    MaxStoreRequests        \* bound on requests

\* No function is named like a hashed account ID, which the partial forms of a name could
\* not tell apart; "none", "part" and "404" stand for what is no code.
ASSUME StoreAssumption ==
    /\ StubHash \in Hashes /\ MaxStoreRequests \in Nat
    /\ Functions \cap Hashes = {} /\ Codes \cap {"", "none", "part", "404"} = {}

StoredVersions == {"$LATEST", "1"}
Aliases == {"dev"}

VARIABLES
    disk,       \* disk[arn]: code.zip and meta.json in the directory of that name
    creator,    \* CreateFunctionHandler of every creator
    getter,     \* GetFunctionHandler of every getter
    served      \* requests so far

storeVars == <<disk, creator, getter, served>>

-----------------------------------------------------------------------------
(* Names *)

Words == Functions \cup Hashes \cup Aliases \cup {"1"}
NameQualifiers == Words \cup {"$LATEST"}
Prefix == <<"brn", "cloud", "faas", "bj">>

\* JudgeQualifier: numbers and $LATEST are versions, words are aliases.
GetVersionAndAlias(q) ==
    IF q \in StoredVersions THEN [version |-> q, alias |-> ""]
    ELSE IF q \in Words THEN [version |-> "", alias |-> q]
    ELSE [version |-> "", alias |-> ""]

\* GenerateFunctionBRN and String; uid stands for its hash.
GenerateFuncBrnString(uid, f, q) ==
    Prefix \o <<uid, "function", f>> \o (IF q = "" THEN <<>> ELSE <<q>>)

\* The regular expressions of JudgeUnderlyingBrn.
regBrn(name) ==
    /\ Len(name) \in {7, 8} /\ SubSeq(name, 1, 4) = Prefix
    /\ name[5] \in Hashes /\ name[6] = "function" /\ name[7] \in Words
    /\ Len(name) = 8 => name[8] \in NameQualifiers

regPartialBrn(name) ==
    \/ Len(name) = 1 /\ name[1] \in Words
    \/ Len(name) = 2 /\ name[1] \in Words /\ name[2] \in NameQualifiers
    \/ Len(name) = 3 /\ name[1] \in Hashes /\ name[2] \in Words /\ name[3] \in NameQualifiers

Dealt(f, va) == [name |-> f, version |-> va.version, alias |-> va.alias]
Unmatched == [name |-> "", version |-> "", alias |-> ""]
NoQualifier == [version |-> "", alias |-> ""]

\* ParseFunction: the resource is what follows the account.
ParseFunction(name) ==
    Dealt(name[7], IF Len(name) = 8 THEN GetVersionAndAlias(name[8]) ELSE NoQualifier)

\* account-id:function is told from function:version by the account of the caller.
DealPartial(accountID, name) ==
    CASE Len(name) = 1 -> Dealt(name[1], NoQualifier)
      [] Len(name) = 2 -> IF name[1] = accountID THEN Dealt(name[2], NoQualifier)
                          ELSE Dealt(name[1], GetVersionAndAlias(name[2]))
      [] Len(name) = 3 -> IF name[1] # accountID THEN Unmatched
                          ELSE Dealt(name[2], GetVersionAndAlias(name[3]))

DealFName(accountID, name) ==
    IF regBrn(name) THEN ParseFunction(name)
    ELSE IF regPartialBrn(name) THEN DealPartial(accountID, name)
    ELSE Unmatched

\* What callers send, and what they mean by it.
Reference(hash, f, q) == [hash |-> hash, f |-> f, q |-> q]
References == [hash : Hashes, f : Functions, q : {"", "$LATEST", "1", "dev"}]
Forms(r) ==
    LET tail == IF r.q = "" THEN <<r.f>> ELSE <<r.f, r.q>>
    IN  {tail, <<r.hash>> \o tail, GenerateFuncBrnString(r.hash, r.f, r.q)}

-----------------------------------------------------------------------------
(* CreateFunctionHandler *)

NoRequestYet == [at |-> "idle", ref |-> [f |-> "", q |-> ""], name |-> <<>>, arn |-> <<>>, code |-> "", version |-> ""]
NoDirectory == [code |-> "none", meta |-> "none", f |-> "", version |-> ""]

Arns == {GenerateFuncBrnString(StubHash, f, v) : f \in Functions, v \in StoredVersions \cup (ArgVersions \ {""})}

StoreInit ==
    /\ disk = [a \in Arns |-> NoDirectory]
    /\ creator = [c \in Creators |-> NoRequestYet]
    /\ getter = [g \in Getters |-> [NoRequestYet EXCEPT !.code = "none"]]
    /\ served = 0

Serve == served < MaxStoreRequests /\ served' = served + 1

\* createFunctionMeta: the version of the name wins over the one of the arguments.
createFunctionMeta(c, r, name, code, argVersion) ==
    LET deal == DealFName(r.hash, name)
        version == IF deal.version # "" THEN deal.version
                   ELSE IF argVersion # "" THEN argVersion ELSE "$LATEST"
    IN /\ creator[c].at = "idle" /\ Serve
       /\ deal # Unmatched
       /\ creator' = [creator EXCEPT ![c] =
            [at |-> "code", ref |-> r, name |-> name, code |-> code, version |-> version,
             arn |-> GenerateFuncBrnString(StubHash, deal.name, version)]]
       /\ UNCHANGED <<disk, getter>>

\* MkdirAll and the two files: each is truncated, then written.
WriteFile(c) ==
    LET r == creator[c]
        to(at) == creator' = [creator EXCEPT ![c].at = at]
        dir(d) == disk' = [disk EXCEPT ![r.arn] = d]
        old == disk[r.arn]
    IN /\ \/ r.at = "code" /\ to("code2") /\ dir([old EXCEPT !.code = "part"])
          \/ r.at = "code2" /\ to("meta") /\ dir([old EXCEPT !.code = r.code])
          \/ r.at = "meta" /\ to("meta2") /\ dir([old EXCEPT !.meta = "part"])
          \/ r.at = "meta2" /\ to("done")
             /\ dir([old EXCEPT !.meta = r.code, !.f = r.arn[7], !.version = r.version])
       /\ UNCHANGED <<getter, served>>

Again(c) ==
    /\ creator[c].at = "done" /\ \A g \in Getters : getter[g].at = "idle"
    /\ creator' = [creator EXCEPT ![c] = NoRequestYet]
    /\ UNCHANGED <<disk, getter, served>>

-----------------------------------------------------------------------------
(* GetFunctionHandler *)

\* Mutant: any name without a number is the latest version.
LookUpLatest(r, name) ==
    GenerateFuncBrnString(StubHash, DealFName(r.hash, name).name, "$LATEST")

\* A name without a version is $LATEST of the stub's account, an alias is dropped; any
\* other name is the name of the directory as it stands.
LookUp(r, name) ==
    LET deal == DealFName(r.hash, name)
    IN  IF deal.version = "" THEN GenerateFuncBrnString(StubHash, deal.name, "$LATEST") ELSE name

GetFunction(g, r, name) ==
    /\ getter[g].at = "idle" /\ Serve
    /\ DealFName(r.hash, name) # Unmatched
    /\ getter' = [getter EXCEPT ![g].at = "open", ![g].ref = r, ![g].name = name, ![g].arn = LookUp(r, name)]
    /\ UNCHANGED <<disk, creator>>

\* The answer is the content of the file, whatever it is at that time.
ReadMeta(g) ==
    LET found == getter[g].arn \in Arns /\ disk[getter[g].arn].meta # "none"
        dir == disk[getter[g].arn]
    IN /\ getter[g].at = "open"
       /\ getter' = [getter EXCEPT ![g] =
            IF found THEN [@ EXCEPT !.at = "idle", !.code = dir.meta, !.arn = <<dir.f, dir.version>>]
            ELSE [@ EXCEPT !.at = "idle", !.code = "404"]]
       /\ UNCHANGED <<disk, creator, served>>

StoreNext ==
    \/ \E c \in Creators : WriteFile(c) \/ Again(c)
    \/ \E c \in Creators, r \in References, code \in Codes, v \in ArgVersions :
         \E name \in Forms(r) : createFunctionMeta(c, r, name, code, v)
    \/ \E g \in Getters : ReadMeta(g)
    \/ \E g \in Getters, r \in References : \E name \in Forms(r) : GetFunction(g, r, name)

-----------------------------------------------------------------------------
(* Properties *)

\* A function that is found is the one that was asked for, in every form of its name: the
\* version of the name, or else $LATEST (for an alias too, which the stub drops).
GetIsRight ==
    \A g \in Getters : getter[g].at = "idle" /\ getter[g].code \in Codes =>
      getter[g].arn = <<getter[g].ref.f, IF getter[g].ref.q \in StoredVersions THEN getter[g].ref.q ELSE "$LATEST">>

\* A function that has been created is found under the name it was created by, if that has
\* no version or is the full name in the stub's account. (Under function:1 it is not.)
CreatedIsFound ==
    \A g \in Getters, c \in Creators :
      /\ creator[c].at = "done" /\ getter[g].at = "open"
      /\ getter[g].name = creator[c].name /\ getter[g].ref = creator[c].ref
      /\ \/ creator[c].ref.q \notin StoredVersions /\ creator[c].version = "$LATEST"
         \/ Len(creator[c].name) = 8 /\ creator[c].ref.hash = StubHash /\ creator[c].ref.q \in StoredVersions
      => getter[g].arn \in Arns /\ disk[getter[g].arn].meta # "none"

\* Names lead where they should: what is found is what was asked for, and what was
\* created is found, in the forms of a name that the stub supports.
StoreSound == GetIsRight /\ CreatedIsFound
=============================================================================
