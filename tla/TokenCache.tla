------------------------------ MODULE TokenCache ------------------------------
(***************************************************************************)
(* The cache of short-lived tokens, from TokenExchanger                    *)
(* (ax_cli/token_cache.py), under the requests that are repeated when the  *)
(* platform answers 401 (_RetryOnAuthClient of ax_cli/client.py, _rpc of   *)
(* ax_cli/a2a_client.py) and `auth refresh` (ax_cli/commands/auth.py).     *)
(*                                                                         *)
(* Each process reads tokens.json once, keeps the tokens in memory and,    *)
(* whenever it exchanges its credential for a new one, reads the file      *)
(* again, lays its memory over it and rewrites it in place.                *)
(***************************************************************************)
EXTENDS Naturals

CONSTANTS
    Clients,        \* processes with one credential
    TokenKeys,      \* cache keys: class, agent, audience and scope
    NoFile, CutOff, \* of tokens.json: no file; cut off, as while it is written
    Retries,        \* _MAX_RETRIES
    MaxIssued       \* bound: tokens issued

(* A token is its number, in the order the platform issued them.           *)
NoToken == 0
Tokens == [TokenKeys -> Nat]
Empty == [k \in TokenKeys |-> NoToken]

ASSUME TokenAssumption ==
    /\ TokenKeys # {} /\ NoFile \notin Tokens /\ CutOff \notin Tokens
    /\ Retries \in Nat \ {0} /\ MaxIssued \in Nat

VARIABLES
    tokens,         \* the content of tokens.json
    wide,           \* is its mode other than 0600?
    orphaned,       \* who writes a file that was removed meanwhile
    memory,         \* _cache of each process
    calls,          \* where each process is in a request
    due,            \* tokens up to this one have expired or soon will
    issued          \* tokens issued so far

cache == <<tokens, wide, orphaned, memory, calls, due, issued>>

(* first: the tokens issued when the request began.                        *)
NoCall == [at |-> "new", key |-> CHOOSE k \in TokenKeys : TRUE, does |-> "client", tried |-> 0,
           file |-> Empty, first |-> 0]

CacheInit ==
    /\ tokens = NoFile
    /\ wide = FALSE
    /\ orphaned = {}
    /\ memory = [c \in Clients |-> Empty]
    /\ calls = [c \in Clients |-> NoCall]
    /\ due = 0 /\ issued = 0

Goes(c, call) == calls' = [calls EXCEPT ![c] = call]
GoesTo(c, place) == Goes(c, [calls[c] EXCEPT !.at = place])

Live(toks) == [k \in TokenKeys |-> IF toks[k] > due THEN toks[k] ELSE NoToken]

-----------------------------------------------------------------------------

(* _load_disk_cache, when a client is made.                                *)
LoadCache(c) ==
    /\ calls[c].at = "new"
    /\ memory' = [memory EXCEPT ![c] = IF tokens \in {NoFile, CutOff} \/ wide THEN Empty ELSE tokens]
    /\ tokens' = IF wide THEN NoFile ELSE tokens
    /\ orphaned' = IF wide THEN orphaned \cup {d \in Clients : calls[d].at = "write"} ELSE orphaned
    /\ wide' = FALSE
    /\ GoesTo(c, "idle")
    /\ UNCHANGED <<due, issued>>

AtRest == {"idle", "served", "refused", "failed"}

(* A request is over, and what it was about is forgotten.                  *)
RequestEnds(c, place) ==
    IF calls[c].does = "refresh" THEN GoesTo(c, place) ELSE Goes(c, [NoCall EXCEPT !.at = place])

(* _get_jwt: the token in memory, or an exchange where it is due.          *)
RequestStarts(c, k, does) ==
    /\ calls[c].at \in AtRest /\ calls[c].does # "refresh"
    /\ Goes(c, [at |-> IF memory[c][k] > due THEN "send" ELSE "exchange", key |-> k, does |-> does,
                tried |-> 0, file |-> Empty, first |-> issued])
    /\ UNCHANGED <<orphaned, tokens, wide, memory, due, issued>>

(* `auth refresh` in a process of its own: what it loaded is forgotten,    *)
(* the file is emptied and a token exchanged.                              *)
RefreshStarts(c, k) ==
    /\ calls[c].at = "idle"
    /\ memory' = [memory EXCEPT ![c] = Empty]
    /\ tokens' = IF tokens = NoFile THEN NoFile ELSE Empty
    /\ wide' = FALSE
    /\ Goes(c, [at |-> "exchange", key |-> k, does |-> "refresh", tried |-> 0, file |-> Empty,
                first |-> issued])
    /\ UNCHANGED <<orphaned, due, issued>>

ExchangeSucceeds(c) ==
    /\ calls[c].at = "exchange" /\ issued < MaxIssued
    /\ issued' = issued + 1
    /\ memory' = [memory EXCEPT ![c][calls[c].key] = issued']
    /\ GoesTo(c, "save")
    /\ UNCHANGED <<orphaned, tokens, wide, due>>

ExchangeFails(c) ==
    /\ calls[c].at = "exchange"
    /\ RequestEnds(c, "failed")
    /\ UNCHANGED <<orphaned, tokens, wide, memory, due, issued>>

(* _save_disk_cache: read and merge, truncate, write, chmod.               *)
SaveReads(c) ==
    /\ calls[c].at = "save"
    /\ LET file == IF tokens \in {NoFile, CutOff} THEN Empty ELSE tokens
           merged == [k \in TokenKeys |-> IF memory[c][k] # NoToken THEN memory[c][k] ELSE file[k]]
       IN  Goes(c, [calls[c] EXCEPT !.at = "truncate", !.file = Live(merged)])
    /\ UNCHANGED <<orphaned, tokens, wide, memory, due, issued>>

SaveTruncates(c) ==
    /\ calls[c].at = "truncate"
    /\ tokens' = CutOff
    /\ wide' = (wide \/ tokens = NoFile)
    /\ GoesTo(c, "write")
    /\ UNCHANGED <<orphaned, memory, due, issued>>

SaveWrites(c) ==
    /\ calls[c].at = "write"
    /\ tokens' = IF c \in orphaned THEN tokens ELSE calls[c].file
    /\ orphaned' = orphaned \ {c}
    /\ Goes(c, [calls[c] EXCEPT !.at = "chmod", !.file = Empty])
    /\ UNCHANGED <<wide, memory, due, issued>>

(* The request goes on with the token of the memory, or asks for one.      *)
SaveEnds(c) ==
    /\ calls[c].at = "chmod"
    /\ \/ tokens = NoFile /\ RequestEnds(c, "failed")
       \/ tokens # NoFile /\ GoesTo(c, IF memory[c][calls[c].key] = NoToken THEN "exchange"
                                       ELSE IF calls[c].does = "refresh" THEN "served" ELSE "send")
    /\ wide' = FALSE
    /\ UNCHANGED <<orphaned, tokens, memory, due, issued>>

Served(c) ==
    /\ calls[c].at = "send"
    /\ RequestEnds(c, "served")
    /\ UNCHANGED <<orphaned, tokens, wide, memory, due, issued>>

(* MUTATION of RetriesClient: the retry takes the token of the cache.      *)
RetriesClientCached(c) ==
    /\ calls[c].at = "send" /\ calls[c].does = "client" /\ calls[c].tried < Retries
    /\ Goes(c, [calls[c] EXCEPT !.at = IF memory[c][calls[c].key] > due THEN "send" ELSE "exchange", !.tried = @ + 1])
    /\ UNCHANGED <<orphaned, tokens, wide, memory, due, issued>>

(* 401: _retry forces an exchange, up to Retries times,                    *)
RetriesClient(c) ==
    /\ calls[c].at = "send" /\ calls[c].does = "client" /\ calls[c].tried < Retries
    /\ Goes(c, [calls[c] EXCEPT !.at = "exchange", !.tried = @ + 1])
    /\ UNCHANGED <<orphaned, tokens, wide, memory, due, issued>>

(* _rpc clears the cache, saves it and tries once more.                    *)
RetriesRpc(c) ==
    /\ calls[c].at = "send" /\ calls[c].does = "rpc" /\ calls[c].tried = 0
    /\ memory' = [memory EXCEPT ![c] = Empty]
    /\ Goes(c, [calls[c] EXCEPT !.at = "save", !.tried = 1])
    /\ UNCHANGED <<orphaned, tokens, wide, due, issued>>

Refused(c) ==
    /\ calls[c].at = "send"
    /\ calls[c].tried = (IF calls[c].does = "client" THEN Retries ELSE 1)
    /\ GoesTo(c, "refused")
    /\ UNCHANGED <<orphaned, tokens, wide, memory, due, issued>>

TokensExpire ==
    /\ due' \in (due + 1)..issued
    /\ UNCHANGED <<orphaned, tokens, wide, memory, calls, issued>>

(* The process ends, anywhere, and another is started.                     *)
Replaced(c) ==
    /\ calls[c].at # "new"
    /\ Goes(c, NoCall)
    /\ memory' = [memory EXCEPT ![c] = Empty]
    /\ orphaned' = orphaned \ {c}
    /\ UNCHANGED <<tokens, wide, due, issued>>

CacheNext ==
    \/ \E c \in Clients :
        \/ LoadCache(c)
        \/ \E k \in TokenKeys : RefreshStarts(c, k) \/ \E does \in {"client", "rpc"} : RequestStarts(c, k, does)
        \/ ExchangeSucceeds(c) \/ ExchangeFails(c)
        \/ SaveReads(c) \/ SaveTruncates(c) \/ SaveWrites(c) \/ SaveEnds(c)
        \/ Served(c) \/ RetriesClient(c) \/ RetriesRpc(c) \/ Refused(c)
        \/ Replaced(c)
    \/ TokensExpire

CacheSpec == CacheInit /\ [][CacheNext]_cache

-----------------------------------------------------------------------------
(* Properties                                                              *)

CacheTypeOK ==
    /\ tokens \in Tokens \cup {NoFile, CutOff}
    /\ wide \in BOOLEAN
    /\ orphaned \in SUBSET Clients
    /\ memory \in [Clients -> Tokens]
    /\ calls \in [Clients -> [at : {"new", "exchange", "save", "truncate", "write", "chmod", "send"} \cup AtRest,
                              key : TokenKeys, does : {"client", "rpc", "refresh"}, tried : Nat,
                              file : Tokens, first : Nat]]
    /\ due \in Nat /\ issued \in Nat

(* Whatever the caches of this and other processes hold, a request that is *)
(* given up as unauthorized was last sent with a token exchanged for it.   *)
RefusedIsFresh ==
    \A c \in Clients : calls[c].at = "refused" => memory[c][calls[c].key] > calls[c].first

(* REFUTED.  "Drop every cached JWT minted from this PAT" (invalidate): a  *)
(* process that runs on lays its own tokens over the emptied file.         *)
RefreshSticks ==
    \A c \in Clients, k \in TokenKeys :
        /\ calls[c].at = "served" /\ calls[c].does = "refresh"
        /\ tokens \in Tokens
        => tokens[k] = NoToken \/ tokens[k] > calls[c].first

(* REFUTED.  "Discard all cached tokens for this PAT" (clear_cache): the   *)
(* save that follows takes them from the file and writes them back.        *)
ClearDiscards ==
    [][\A c \in Clients : calls[c].at = "write" /\ memory[c] = Empty /\ calls'[c].at = "chmod"
        => tokens' \in {NoFile, Empty}]_cache

(* REFUTED.  Who was issued a token can use it: a client that starts sees  *)
(* the new file before its chmod, removes it, and the chmod fails.         *)
IssuedIsUsed == [][\A c \in Clients : calls[c].at = "chmod" => calls'[c].at # "failed"]_cache
=============================================================================
