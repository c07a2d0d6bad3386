------------------------------- MODULE PathMux -------------------------------
(***************************************************************************)
(* PathRecorderMux (server/mux/pathrecorder.go), to which healthz, metrics *)
(* and profiling add their handlers while requests are served: two maps    *)
(* under a lock, the list of exposed paths, and the pathHandler that       *)
(* refreshMuxLocked publishes for the readers, who take no lock.           *)
(*                                                                         *)
(* A path is the sequence of what its slashes separate: "/a/" is           *)
(* <<"a", "">>, "/a" is <<"a">>. A prefix ends in a slash.                 *)
(***************************************************************************)
EXTENDS Naturals, Sequences, SequencesExt, FiniteSets

CONSTANTS
    Paths,              \* paths that are registered and asked for
    Responders,         \* handlers
    NotFound,           \* http.NotFoundHandler
    MaxRegistrations    \* bound on operations

ASSUME MuxAssumption ==
    Paths \subseteq Seq(STRING) \ {<<>>} /\ NotFound \notin Responders /\ MaxRegistrations \in Nat

VARIABLES
    exact, prefixed,    \* pathToHandler and prefixToHandler
    notFound,           \* notFoundHandler
    exposedPaths,
    published,          \* the pathHandler in mux
    again,              \* ghost: paths registered while they were registered
    operations

muxVars == <<exact, prefixed, notFound, exposedPaths, published, again, operations>>

NoTable == [p \in {} |-> NotFound]

MuxInit ==
    /\ exact = NoTable /\ prefixed = NoTable /\ notFound = NotFound
    /\ exposedPaths = <<>>
    /\ published = [exact |-> NoTable, order |-> <<>>, prefixed |-> NoTable, notFound |-> NotFound]
    /\ again = {} /\ operations = 0

IsPrefixPath(p) == Last(p) = ""
HasPrefix(path, prefix) == Len(path) >= Len(prefix) /\ IsPrefix(Front(prefix), path)
With(table, p, h) == [q \in DOMAIN table \cup {p} |-> IF q = p THEN h ELSE table[q]]
Without(table, p) == [q \in DOMAIN table \ {p} |-> table[q]]

\* Most slashes first; longer and greater strings first among equals, which cannot both be
\* prefixes of one path.
byPrefixPriority(p, q) == Len(p) > Len(q)

\* The sort of the prefixes by priority.
Sorted(prefixes) ==
    CHOOSE s \in [1..Cardinality(prefixes) -> prefixes] :
      Range(s) = prefixes /\ \A i, j \in DOMAIN s : i < j => ~byPrefixPriority(s[j], s[i])

\* refreshMuxLocked: a new pathHandler from maps that the operation has changed.
Refresh(paths, prefixes, other) ==
    [exact |-> paths, order |-> Sorted(DOMAIN prefixes),
     prefixed |-> prefixes, notFound |-> other]

Operation == operations < MaxRegistrations /\ operations' = operations + 1

\* trackCallers complains about a path that is registered already, and nothing else.
trackCallers(p) ==
    again' = IF p \in DOMAIN exact \cup DOMAIN prefixed THEN again \cup {p} ELSE again

Expose(p, listed) == exposedPaths' = IF listed THEN Append(exposedPaths, p) ELSE exposedPaths

\* Handle and UnlistedHandle.
Handle(p, h, listed) ==
    /\ Operation /\ trackCallers(p) /\ Expose(p, listed)
    /\ exact' = With(exact, p, h)
    /\ published' = Refresh(exact', prefixed, notFound)
    /\ UNCHANGED <<prefixed, notFound>>

\* HandlePrefix and UnlistedHandlePrefix; others than prefixes panic.
HandlePrefix(p, h, listed) ==
    /\ IsPrefixPath(p)
    /\ Operation /\ trackCallers(p) /\ Expose(p, listed)
    /\ prefixed' = With(prefixed, p, h)
    /\ published' = Refresh(exact, prefixed', notFound)
    /\ UNCHANGED <<exact, notFound>>

NotFoundHandler(h) ==
    /\ Operation
    /\ notFound' = h
    /\ published' = Refresh(exact, prefixed, h)
    /\ UNCHANGED <<exact, prefixed, exposedPaths, again>>

\* The first of the exposed paths that is p.
FirstExposed(p) == CHOOSE i \in DOMAIN exposedPaths : exposedPaths[i] = p /\ \A j \in 1..(i - 1) : exposedPaths[j] # p

Unregister(p) ==
    /\ Operation
    /\ exact' = Without(exact, p) /\ prefixed' = Without(prefixed, p)
    /\ exposedPaths' = IF Contains(exposedPaths, p) THEN RemoveAt(exposedPaths, FirstExposed(p)) ELSE exposedPaths
    /\ published' = Refresh(exact', prefixed', notFound)
    /\ UNCHANGED <<notFound, again>>

\* ServeHTTP of the published pathHandler: exact match, first prefix that matches, rest.
ServeHTTP(path) ==
    LET i == SelectInSeq(published.order, LAMBDA q : HasPrefix(path, q))
    IN  IF path \in DOMAIN published.exact THEN published.exact[path]
        ELSE IF i # 0 THEN published.prefixed[published.order[i]]
        ELSE published.notFound

MuxNext ==
    \/ \E p \in Paths :
         \/ Unregister(p)
         \/ \E h \in Responders, listed \in BOOLEAN : Handle(p, h, listed) \/ HandlePrefix(p, h, listed)
    \/ \E h \in Responders : NotFoundHandler(h)

-----------------------------------------------------------------------------
(* Properties *)

\* Readers see the handler that the registrations so far prescribe: the one of the path,
\* else the one of the longest prefix, else the not-found handler.
RoutesBest ==
    \A path \in Paths :
      LET matching == {q \in DOMAIN prefixed : HasPrefix(path, q)}
      IN  ServeHTTP(path) =
            IF path \in DOMAIN exact THEN exact[path]
            ELSE IF matching = {} THEN notFound
            ELSE prefixed[CHOOSE q \in matching : \A r \in matching : Len(r) <= Len(q)]

\* What is listed is served. (Not so for a path that was registered twice: Unregister
\* takes one entry from the list.)
ListedServed ==
    \A i \in DOMAIN exposedPaths :
      exposedPaths[i] \in again \/ exposedPaths[i] \in DOMAIN exact \cup DOMAIN prefixed
=============================================================================
