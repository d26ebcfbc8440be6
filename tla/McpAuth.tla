------------------------------- MODULE McpAuth -------------------------------
(***************************************************************************)
(* The credentials of remote MCP servers.  ~/.cluxmate/mcp-auth.json has    *)
(* one entry per server and four kinds of writer, each with a store object  *)
(* (and so a lock) of its own:                                              *)
(*                                                                          *)
(*   a request     renews an expired token, or one the server rejected      *)
(*   a flow        _run_mcp_auth: the interactive authorization             *)
(*   a logout      on the dispatch thread                                   *)
(*   the terminal  `cluxmate mcp auth` in another process                   *)
(*                                                                          *)
(* A flow and a logout go on to reload the server (McpServers has what that *)
(* does to managers and agents); here the reload is the shutdown of the old *)
(* client and the two requests of the new one's handshake.                  *)
(***************************************************************************)
EXTENDS Naturals, FiniteSets

CONSTANTS
  Servers,     \* the remote servers configured, all with OAuth on
  Calls,       \* tool calls that may be under way at once
  MaxCreds,    \* bound on the credentials the authorization servers issue
  MaxEvents   \* bound on calls, RPC requests and outside events together

ASSUME ServersAreFinite == IsFiniteSet(Servers)

VARIABLES
  file,      \* mcp-auth.json: the credential of each server, 0 for none
  issued,    \* credentials are numbered in the order they are issued
  valid,     \* those unexpired (fresh), those the MCP server accepts, those
             \* whose refresh token is still good (live); ghost: those that were
             \* turned down although it was (refused)
  req,       \* a request to a server per call, and per thread that reloads
  flow,      \* the authorization thread of each server
  inflight,  \* _auth_inflight
  listed,    \* _auth_flows: the flows a logout or a cancel can reach
  epoch,     \* _auth_epoch
  logout,    \* the logout the dispatch thread is in
  budget,      \* what remains of MaxEvents
  out,       \* ghost: servers logged out and not authorized since
  raced      \* ghost: servers whose entry two writers worked on at once

authVars == <<file, issued, valid, req, flow, inflight, listed, epoch, logout, budget, out, raced>>

Reloaders == {"dispatch"} \union Servers
Requests == Calls \union Reloaders

NoFile == [s \in Servers |-> 0]

NoRequest == [pc |-> "idle", server |-> "-", op |-> "-", rec |-> 0, new |-> 0, forced |-> FALSE,
              dead |-> FALSE, snap |-> NoFile]
NoFlow == [pc |-> "idle", epoch |-> 0, cb |-> "none", new |-> 0, snap |-> NoFile]
NoLogout == [server |-> "-", pc |-> "idle", snap |-> NoFile]

(* Every server has a credential from an earlier session, by now expired or *)
(* not.                                                                     *)
AuthInit ==
  /\ issued = Cardinality(Servers)
  /\ file = CHOOSE f \in [Servers -> 1..issued] :
              \A s, t \in Servers : f[s] = f[t] => s = t
  /\ \E fresh \in {{}, {1}} :
       valid = [fresh |-> fresh, accepted |-> fresh, live |-> 1..issued, refused |-> {}]
  /\ req = [i \in Requests |-> NoRequest]
  /\ flow = [s \in Servers |-> NoFlow]
  /\ inflight = {} /\ listed = {} /\ out = {} /\ raced = {}
  /\ epoch = [s \in Servers |-> 0]
  /\ logout = NoLogout
  /\ budget = MaxEvents

Costs == budget > 0 /\ budget' = budget - 1

(* The authorization server issues a credential; on a refresh it retires    *)
(* the refresh token it was given.                                          *)
Issued(retired) ==
  LET n == issued + 1
  IN  /\ n <= MaxCreds
      /\ issued' = n
      /\ valid' = [fresh |-> valid.fresh \union {n},
                   accepted |-> valid.accepted \union {n},
                   live |-> (valid.live \ retired) \union {n},
                   refused |-> valid.refused]

(* put and delete re-read the whole file and rewrite it: whoever saved in   *)
(* between is overwritten.  `was` is what the writer believed s to hold.    *)
Overtaken(snap, s, was) ==
  {x \in Servers \ {s} : snap[x] # file[x]} \union (IF file[s] # was THEN {s} ELSE {})

Saved(snap, s, k, was) ==
  /\ file' = [snap EXCEPT ![s] = k]
  /\ raced' = raced \union Overtaken(snap, s, was)
-----------------------------------------------------------------------------
(* A request.  Stages "ask", "refresh", "put" and "drop" hold the client's  *)
(* lock; the forced refresh that follows a 401 ("frefresh", "fput",         *)
(* "fdrop") holds nothing.                                                  *)

RequestAt(i, r) == req' = [req EXCEPT ![i] = r]

Locked(s) ==
  \E i \in Requests : /\ req[i].server = s /\ ~req[i].dead
                      /\ req[i].pc \in {"ask", "refresh", "put", "drop"}

Ended(i) == RequestAt(i, NoRequest)

ToolIsCalled(c, s) ==
  /\ req[c].pc = "idle" /\ Costs
  /\ RequestAt(c, [NoRequest EXCEPT !.pc = "lock", !.server = s, !.op = "call"])
  /\ UNCHANGED <<file, issued, valid, flow, inflight, listed, epoch, logout, out, raced>>

(* _ensure_bearer: no credential, or a fresh one, goes on the wire as it    *)
(* is; an expired one is refreshed first.  A killed transport fails.        *)
RequestLocks(i) ==
  LET r == req[i]
      k == file[r.server]
  IN  /\ r.pc = "lock"
      /\ r.dead \/ ~Locked(r.server)
      /\ IF r.dead
           THEN Ended(i)
           ELSE RequestAt(i, [r EXCEPT !.rec = k,
                  !.pc = IF k = 0 \/ k \in valid.fresh THEN "ask" ELSE "refresh"])
      /\ UNCHANGED <<file, issued, valid, flow, inflight, listed, epoch, logout, budget, out, raced>>

(* initialize is followed by tools/list; that and a call end the request.   *)
RequestIsAnswered(i) ==
  LET r == req[i]
  IN  /\ r.pc = "ask" /\ ~r.dead /\ r.rec \in valid.accepted
      /\ IF r.op = "init"
           THEN RequestAt(i, [r EXCEPT !.op = "list", !.pc = "lock", !.rec = 0])
           ELSE Ended(i)
      /\ UNCHANGED <<file, issued, valid, flow, inflight, listed, epoch, logout, budget, out, raced>>

(* 401: a list or a call refreshes once, by whatever is stored now.         *)
RequestIsUnauthorized(i) ==
  LET r == req[i]
      k == file[r.server]
  IN  /\ r.pc = "ask" /\ ~r.dead /\ r.rec \notin valid.accepted
      /\ IF r.op # "init" /\ ~r.forced /\ k # 0
           THEN RequestAt(i, [r EXCEPT !.pc = "frefresh", !.forced = TRUE, !.rec = k])
           ELSE Ended(i)
      /\ UNCHANGED <<file, issued, valid, flow, inflight, listed, epoch, logout, budget, out, raced>>

(* A call timeout, a connection error, a transport that was closed.         *)
RequestFails(i) ==
  /\ req[i].pc = "ask"
  /\ Ended(i)
  /\ UNCHANGED <<file, issued, valid, flow, inflight, listed, epoch, logout, budget, out, raced>>

(* refresh_access_token succeeds, and put has re-read the file.             *)
RefreshSucceeds(i) ==
  LET r == req[i]
  IN  /\ r.pc \in {"refresh", "frefresh"} /\ r.rec \in valid.live
      /\ Issued({r.rec})
      /\ RequestAt(i, [r EXCEPT !.pc = IF @ = "refresh" THEN "put" ELSE "fput",
                           !.new = issued + 1, !.snap = file])
      /\ UNCHANGED <<file, flow, inflight, listed, epoch, logout, budget, out, raced>>

(* The token endpoint answers with neither a 200 nor a 5xx, or there is no  *)
(* refresh token: refresh_rejected, and the entry is dropped, whatever      *)
(* credential it holds by now.  So it is when the token was good and the    *)
(* answer a 408 or a 429.                                                   *)
RefreshIsRejected(i) ==
  LET r == req[i]
  IN  /\ r.pc \in {"refresh", "frefresh"}
      /\ \/ r.rec \notin valid.live /\ UNCHANGED <<valid, budget>>
         \/ r.rec \in valid.live /\ Costs /\ valid' = [valid EXCEPT !.refused = @ \union {r.rec}]
      /\ RequestAt(i, [r EXCEPT !.pc = IF @ = "refresh" THEN "drop" ELSE "fdrop", !.snap = file])
      /\ UNCHANGED <<file, issued, flow, inflight, listed, epoch, logout, out, raced>>

(* A timeout, a 5xx or a 200 without a token keeps the credential for the   *)
(* next call.                                                               *)
RefreshIsTransient(i) ==
  /\ req[i].pc \in {"refresh", "frefresh"}
  /\ Ended(i)
  /\ UNCHANGED <<file, issued, valid, flow, inflight, listed, epoch, logout, budget, out, raced>>

(* The new credential is saved, and the request goes out with it; a forced  *)
(* refresh has let go of the lock and queues for it again.                  *)
RefreshIsSaved(i) ==
  LET r == req[i]
  IN  /\ r.pc \in {"put", "fput"}
      /\ Saved(r.snap, r.server, r.new, r.rec)
      /\ RequestAt(i, [r EXCEPT !.pc = IF @ = "put" THEN "ask" ELSE "lock",
                               !.rec = IF r.pc = "put" THEN r.new ELSE 0,
                               !.new = 0, !.snap = NoFile])
      /\ UNCHANGED <<issued, valid, flow, inflight, listed, epoch, logout, budget, out>>

CredentialIsDropped(i) ==
  LET r == req[i]
  IN  /\ r.pc \in {"drop", "fdrop"}
      /\ IF r.snap[r.server] = 0 THEN UNCHANGED <<file, raced>>
                                 ELSE Saved(r.snap, r.server, 0, r.rec)
      /\ Ended(i)
      /\ UNCHANGED <<issued, valid, flow, inflight, listed, epoch, logout, budget, out>>

(* reload_mcp_server on thread i: kill the old client's transport, wait for *)
(* its lock, then the new client's handshake.                               *)
OldClientIsShut(i) ==
  LET s == req[i].server
  IN  /\ req[i].pc = "shut"
      /\ req' = [j \in Requests |->
           CASE j = i -> [req[j] EXCEPT !.pc = "lock", !.op = "init"]
             [] j # i /\ req[j].server = s /\ req[j].pc # "shut" -> [req[j] EXCEPT !.dead = TRUE]
             [] OTHER -> req[j]]
      /\ ~Locked(s)
      /\ UNCHANGED <<file, issued, valid, flow, inflight, listed, epoch, logout, budget, out, raced>>

RequestStep(i) ==
  \/ RequestLocks(i) \/ RequestIsUnauthorized(i) \/ RequestFails(i)
  \/ RefreshIsRejected(i) \/ RefreshIsTransient(i) \/ RefreshIsSaved(i)
  \/ CredentialIsDropped(i) \/ OldClientIsShut(i)
-----------------------------------------------------------------------------
(* The interactive flow.                                                    *)

FlowAt(s, f) == flow' = [flow EXCEPT ![s] = f]

(* mcp/auth/start: the marker and the epoch are taken under one lock.       *)
AuthStarts(s) ==
  /\ logout.pc = "idle"
  /\ s \notin inflight
  /\ Costs
  /\ inflight' = inflight \union {s}
  /\ FlowAt(s, [NoFlow EXCEPT !.pc = "thread", !.epoch = epoch[s]])
  /\ out' = out \ {s}
  /\ UNCHANGED <<file, issued, valid, req, listed, epoch, logout, raced>>

(* authorize() listens on the loopback port; discovery, registration and    *)
(* PKCE follow, and the browser opens last.                                 *)
FlowListens(s) ==
  /\ flow[s].pc = "thread"
  /\ listed' = listed \union {s}
  /\ FlowAt(s, [flow[s] EXCEPT !.pc = "wait", !.cb = "open"])
  /\ UNCHANGED <<file, issued, valid, req, inflight, epoch, logout, budget, out, raced>>

(* The browser comes back with a code; a redirect after a cancel still      *)
(* counts if the waiter has not woken yet.                                  *)
UserAnswers(s) ==
  /\ flow[s].pc = "wait" /\ flow[s].cb \in {"open", "cancelled"}
  /\ FlowAt(s, [flow[s] EXCEPT !.cb = "code"])
  /\ UNCHANGED <<file, issued, valid, req, inflight, listed, epoch, logout, budget, out, raced>>

FlowDiesUnnoticed(s) ==
  /\ flow[s].pc = "wait"
  /\ FlowAt(s, [flow[s] EXCEPT !.pc = "dead", !.cb = "none"])
  /\ UNCHANGED <<file, issued, valid, req, inflight, listed, epoch, logout, budget, out, raced>>

(* No port, no usable metadata, no registration; cancelled, denied, timed   *)
(* out, a redirect with another state, or the exchange is refused.          *)
FlowFails(s) ==
  /\ flow[s].pc = "wait"
  /\ FlowAt(s, [flow[s] EXCEPT !.pc = "end", !.cb = "none"])
  /\ UNCHANGED <<file, issued, valid, req, inflight, listed, epoch, logout, budget, out, raced>>

FlowIgnoresTheEpoch(s) ==
  /\ flow[s].pc = "wait" /\ flow[s].cb = "code"
  /\ Issued({})
  /\ FlowAt(s, [flow[s] EXCEPT !.pc = "put", !.cb = "none", !.new = issued + 1, !.snap = file])
  /\ UNCHANGED <<file, req, inflight, listed, epoch, logout, budget, out, raced>>

(* The code is exchanged; a logout since the start supersedes the flow;     *)
(* otherwise put re-reads the file.                                         *)
FlowExchanges(s) ==
  /\ flow[s].pc = "wait" /\ flow[s].cb = "code"
  /\ Issued({})
  /\ FlowAt(s, IF epoch[s] = flow[s].epoch
                 THEN [flow[s] EXCEPT !.pc = "put", !.cb = "none", !.new = issued + 1,
                                      !.snap = file]
                 ELSE [flow[s] EXCEPT !.pc = "end", !.cb = "none"])
  /\ UNCHANGED <<file, req, inflight, listed, epoch, logout, budget, out, raced>>

(* Saved, and then the server is reloaded on this thread.                   *)
FlowStores(s) ==
  /\ flow[s].pc = "put"
  /\ Saved(flow[s].snap, s, flow[s].new, flow[s].snap[s])
  /\ FlowAt(s, [NoFlow EXCEPT !.pc = "reload"])
  /\ RequestAt(s, [NoRequest EXCEPT !.pc = "shut", !.server = s])
  /\ UNCHANGED <<issued, valid, inflight, listed, epoch, logout, budget, out>>

(* The finally block: the marker goes, whatever happened, and the desktop   *)
(* hears mcp/auth/completed.                                                *)
FlowEnds(s) ==
  /\ \/ flow[s].pc = "end"
     \/ flow[s].pc = "reload" /\ req[s].pc = "idle"
  /\ inflight' = inflight \ {s} /\ listed' = listed \ {s}
  /\ FlowAt(s, NoFlow)
  /\ UNCHANGED <<file, issued, valid, req, epoch, logout, budget, out, raced>>

FlowStep(s) ==
  FlowListens(s) \/ FlowFails(s) \/ FlowExchanges(s) \/ FlowStores(s) \/ FlowEnds(s)
-----------------------------------------------------------------------------
(* The dispatch thread.                                                     *)

(* MCPOAuthFlow.cancel on the flow a dispatch step can reach.               *)
FlowCancelled(s) ==
  IF s \in listed
    THEN [flow EXCEPT ![s].cb = IF @ = "open" THEN "cancelled" ELSE @]
    ELSE flow

AuthIsCancelled(s) ==
  /\ logout.pc = "idle" /\ s \in listed
  /\ Costs
  /\ flow' = FlowCancelled(s)
  /\ UNCHANGED <<file, issued, valid, req, inflight, listed, epoch, logout, out, raced>>

(* Logout: bump the epoch and cancel the flow, then delete, then reload.    *)
LogoutBumps(s) ==
  /\ logout.pc = "idle"
  /\ Costs
  /\ epoch' = [epoch EXCEPT ![s] = @ + 1]
  /\ flow' = FlowCancelled(s)
  /\ logout' = [server |-> s, pc |-> "drop", snap |-> file]
  /\ UNCHANGED <<file, issued, valid, req, inflight, listed, out, raced>>

(* Someone has checked the epoch, or read the credential, and not yet       *)
(* written what it makes of it.                                             *)
WriterPastCheck(s) ==
  \/ flow[s].pc = "put"
  \/ \E i \in Requests :
       req[i].server = s /\ req[i].pc \in {"refresh", "frefresh", "put", "fput"}

LogoutDeletes ==
  /\ logout.pc = "drop"
  /\ LET s == logout.server
     IN  /\ file' = IF logout.snap[s] = 0 THEN file ELSE [logout.snap EXCEPT ![s] = 0]
         /\ out' = out \union {s}
         /\ raced' = raced \union (IF WriterPastCheck(s) THEN {s} ELSE {})
                           \union (IF logout.snap[s] = 0
                                     THEN (IF file[s] = 0 THEN {} ELSE {s})
                                     ELSE {x \in Servers \ {s} : logout.snap[x] # file[x]})
         /\ RequestAt("dispatch", [NoRequest EXCEPT !.pc = "shut", !.server = s])
  /\ logout' = [NoLogout EXCEPT !.pc = "reload"]
  /\ UNCHANGED <<issued, valid, flow, inflight, listed, epoch, budget>>

LogoutReturns ==
  /\ logout.pc = "reload" /\ req["dispatch"].pc = "idle"
  /\ logout' = NoLogout
  /\ UNCHANGED <<file, issued, valid, req, flow, inflight, listed, epoch, budget, out, raced>>
-----------------------------------------------------------------------------
(* The world outside: time, the authorization server, and `cluxmate mcp     *)
(* auth` in another process, which shares only the file.                    *)

TokenExpires(k) ==
  /\ k \in valid.fresh /\ Costs
  /\ valid' = [valid EXCEPT !.fresh = @ \ {k}, !.accepted = @ \ {k}]
  /\ UNCHANGED <<file, issued, req, flow, inflight, listed, epoch, logout, out, raced>>

(* The server forgets the token, or the grant behind it.                    *)
TokenIsRevoked(k) ==
  /\ k \in valid.accepted /\ Costs
  /\ \E grant \in {{}, {k}} :
       valid' = [valid EXCEPT !.accepted = @ \ {k}, !.live = @ \ grant]
  /\ UNCHANGED <<file, issued, req, flow, inflight, listed, epoch, logout, out, raced>>

TerminalAuthorizes(s) ==
  /\ Costs
  /\ Issued({})
  /\ file' = [file EXCEPT ![s] = issued + 1]
  /\ out' = out \ {s}
  /\ UNCHANGED <<req, flow, inflight, listed, epoch, logout, raced>>

AuthNext ==
  \/ \E i \in Requests : RequestStep(i) \/ RequestIsAnswered(i) \/ RefreshSucceeds(i)
  \/ \E c \in Calls, s \in Servers : ToolIsCalled(c, s)
  \/ \E s \in Servers :
       \/ AuthStarts(s) \/ FlowStep(s) \/ UserAnswers(s) \/ AuthIsCancelled(s)
       \/ LogoutBumps(s) \/ TerminalAuthorizes(s)
  \/ LogoutDeletes \/ LogoutReturns
  \/ \E k \in 1..issued : TokenExpires(k) \/ TokenIsRevoked(k)

(* No thread stops for good.  Requests end with the call timeout, a flow    *)
(* with the timeout of its callback; nothing makes a server or the user     *)
(* answer.                                                                  *)
AuthFairness ==
  /\ \A i \in Requests : WF_authVars(RequestStep(i))
  /\ \A s \in Servers : WF_authVars(FlowStep(s))
  /\ WF_authVars(LogoutDeletes \/ LogoutReturns)

AuthSpec == AuthInit /\ [][AuthNext]_authVars /\ AuthFairness
-----------------------------------------------------------------------------
(* Once a logout has deleted a server's credential it stays deleted until   *)
(* the user authorizes the server again: the epoch _run_mcp_                *)
(* auth looks at before it persists, and the re-reading of the file by put  *)
(* and delete, are for this.  Excused are entries two writers worked on at  *)
(* once (`raced`): one past its check when the delete came, or one that     *)
(* rewrote the whole file from an older reading.                            *)
LogoutHolds == \A s \in out \ raced : file[s] = 0

(* What can still be renewed as far as any client has been told.  A         *)
(* credential the token endpoint once answered with a 4xx is not of these,  *)
(* though its refresh token may be good: refresh_access_token does not tell *)
(* a 408 or a 429 from invalid_grant.                                       *)
Renewable == valid.live \ valid.refused

(* Action property.  The credential file follows the user.  What a logout  *)
(* deleted stays away, in every state and after every step; and a           *)
(* credential that can still be renewed is neither dropped nor replaced by  *)
(* an older one, except by a logout or by a 4xx to a refresh of that very   *)
(* credential: a refresh that times out or meets a 5xx keeps it, and one    *)
(* that is refused drops only what was refused.  Excused are, again,        *)
(* entries two writers worked on at once.                                   *)
CalmCredentialsFollowTheUser ==
  [][/\ LogoutHolds /\ LogoutHolds'
     /\ \A s \in Servers :
          file[s] \in Renewable /\ file'[s] < file[s] => s \in out' \union raced']_authVars

(* Liveness.  An authorization that was started is over in the end, however *)
(* it goes: the in-flight marker, which refuses another start, goes away.   *)
AuthSettles == \A s \in Servers : s \in inflight ~> s \notin inflight

(* Liveness.  A logout, which runs on the thread that reads the desktop's   *)
(* requests, returns, whatever requests of the old client are under way and *)
(* whether or not the server answers the new client's handshake.            *)
LogoutsReturn == logout.pc # "idle" ~> logout.pc = "idle"

(* Liveness.  What the user starts about an authorization comes to an end.  *)
FlowsAndLogoutsEnd == AuthSettles /\ LogoutsReturn
=============================================================================
