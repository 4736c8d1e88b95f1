------------------------------ MODULE PromptAPI ------------------------------
(***************************************************************************)
(* The interceptor chain in front of the handlers: a call is let through   *)
(* by the rate limiter (PromptRateLimit) and then handled on behalf of its *)
(* credential (PromptCatalog), while the command line imports and restores *)
(* beside it.                                                              *)
(***************************************************************************)
EXTENDS PromptRateLimit, PromptCatalog

CONSTANTS
    OrgOf,      \* the org of each prompt, validate.Org
    SubjectOf,  \* the subject of each call's credential, "": a static token
    Writes      \* the calls whose credential may write

VARIABLE serving    \* the calls whose handler runs

apiVars == <<limiterVars, catalogVars, serving>>

(* Whom the commits of a call name, auth.ScopeOf.  *)
Signature(c) ==
    IF SubjectOf[c] # "" THEN SubjectOf[c]
    ELSE IF ScopeOf[c] # "" THEN ScopeOf[c]
    ELSE "anonymous"

ASSUME APIAssumption ==
    /\ OrgOf \in [Uri -> Org \ {""}]
    /\ Writes \subseteq Call
    /\ \A c \in Call : Signature(c) \in Author

APIInit == LimiterInit /\ CatalogInit /\ serving = {}

Arrives(c) == c \notin serving /\ FindLimiter(c) /\ UNCHANGED <<catalogVars, serving>>

Enters(c) == Admit(c) /\ serving' = serving \cup {c} /\ UNCHANGED catalogVars

Rejected(c) == Refuse(c) /\ UNCHANGED <<catalogVars, serving>>

(* auth.Authorize and auth.RequireWrite.  *)
Anyone(c, u) == TRUE        \* mutation: the org is not looked at
Authorize(c, u) == ScopeOf[c] \in {"", OrgOf[u]}
RequireWrite(c) == c \in Writes

(* The handler makes one change to the store or, as a read, a no-op or a   *)
(* call that is denied or fails, none.                                     *)
Handles(c) ==
    /\ c \in serving
    /\ serving' = serving \ {c}
    /\ \/ /\ RequireWrite(c)
          /\ \E u \in Uri : Authorize(c, u) /\ Write(u, Signature(c))
       \/ UNCHANGED catalogVars
    /\ UNCHANGED limiterVars

APINext ==
    \/ \E c \in Call : Arrives(c) \/ Enters(c) \/ Rejected(c) \/ Handles(c)
    \/ Tick /\ UNCHANGED <<catalogVars, serving>>
    \/ Import /\ UNCHANGED <<limiterVars, serving>>
    \/ \E l \in Loaded : RestoreLine(l) /\ UNCHANGED <<limiterVars, serving>>

APISpec == APIInit /\ [][APINext]_apiVars

(* The names the credentials of an org sign with, and those of them that   *)
(* nobody else does: an identity provider may give two orgs' callers one   *)
(* subject, or the name of an org or of the command line.                  *)
Names(o) == {Signature(c) : c \in {x \in Call : ScopeOf[x] = o}}
OnlyOf(o) == {a \in Names(o) : a # "priompt" /\ \A p \in Org \ {o} : a \notin Names(p)}

(* auth.go 48-58, a commit log answers "who changed this": every commit    *)
(* names the command line, or a credential that may write the prompt; and  *)
(* the names that stand for one org alone are, all together, on no more    *)
(* commits than the limiter let calls of that org through.                 *)
CommitsAreAccountedFor ==
    /\ \A k \in Commits :
          \/ table[k].author = "priompt"
          \/ \E c \in Writes :
                table[k].author = Signature(c) /\ ScopeOf[c] \in {"", OrgOf[table[k].uri]}
    /\ \A o \in Org :
          Cardinality({k \in Commits : table[k].author \in OnlyOf(o)}) <= admitted[o]
=============================================================================
