-------------------------------- MODULE Gtpu --------------------------------
(***************************************************************************)
(* The GTP-U tunnels of the eNodeB: the tunnel manager, the handlers of    *)
(* class gtpu, and the calls RRC makes to them when E-RABs are set up and  *)
(* released, when a UE is handed over into the cell or out of it, and when *)
(* it re-establishes its connection under another RNTI.  All of it runs on *)
(* the stack thread, so that a handler is one step; what arrives from the  *)
(* network, and when the timer of a tunnel expires, is arbitrary.          *)
(*                                                                         *)
(* Operators named for the methods map one state of the manager, a record  *)
(* of the variables it owns, to the next.  A UE absent from ue_teidin_db   *)
(* and one whose list is empty are not told apart.  SDUs are counted only. *)
(***************************************************************************)
EXTENDS Integers, SequencesExt

CONSTANTS
  Rntis,               \* RNTIs, numbers
  Bearers,             \* EPS bearer identities, numbers
  MaxTunnelsPerUe,     \* MAX_TUNNELS_PER_UE
  MaxTunnels,          \* size of the pool of tunnels
  BufferSize,          \* BUFFER_SIZE
  IndirectTimeout,     \* indirect_tunnel_timeout_msec > 0
  MaxTeid              \* bound: no handler allocates once next_id has passed it

ASSUME LimitsAssumption ==
  /\ Rntis \subseteq Nat /\ Bearers \subseteq Nat \ {0}
  /\ {MaxTunnelsPerUe, MaxTunnels, BufferSize, MaxTeid} \subseteq Nat \ {0}
  /\ IndirectTimeout \in BOOLEAN

VARIABLES
  tunnels,         \* by TEID: the tunnels
  ue_teidin_db,    \* by RNTI: the (bearer, TEID) pairs of its tunnels
  next_id,         \* of the pool
  marked,          \* history: TEIDs whose End Marker the last handler sent
  failed,          \* history: a bag, with a TEID for each End Marker it failed to send
  ue,              \* by RNTI: what RRC is doing with the UE
  teid_in,         \* by RNTI and bearer: the main tunnel RRC knows, or 0
  pending_tunnels, \* by RNTI: tunnels RRC activates when the UE has arrived
  rushed           \* history: main tunnels forwarded before they were flushed

manager == <<tunnels, ue_teidin_db, next_id, marked, failed>>
rrc == <<ue, teid_in, pending_tunnels, rushed>>
vars == <<manager, rrc>>

Teids == Nat \ {0}
NoBuffer == -1
TunnelStates == {"pdcp_active", "buffering", "forward_to", "forwarded_from", "inactive"}
Removals == [do : {"nothing", "activate", "remove"}, teid : Teids \cup {0}]
Tunnels ==
  [rnti : Rntis, bearer : Bearers, state : TunnelStates, fwd_tunnel : Teids \cup {0},
   buffer : NoBuffer .. BufferSize, rx_timer : BOOLEAN, on_removal : Removals]

NewTunnel(rnti, bearer) ==
  [rnti |-> rnti, bearer |-> bearer, state |-> "pdcp_active", fwd_tunnel |-> 0,
   buffer |-> NoBuffer, rx_timer |-> FALSE, on_removal |-> [do |-> "nothing", teid |-> 0]]

NoErabs == [b \in Bearers |-> 0]

Init ==
  /\ tunnels = <<>>
  /\ ue_teidin_db = [r \in Rntis |-> {}]
  /\ next_id = 1
  /\ marked = {} /\ failed = EmptyBag
  /\ ue = [r \in Rntis |-> "none"]
  /\ teid_in = [r \in Rntis |-> NoErabs]
  /\ pending_tunnels = [r \in Rntis |-> {}]
  /\ rushed = {}

-----------------------------------------------------------------------------
(* The tunnel manager. *)

\* What a handler starts from.  `teid' is what the last add_tunnel returned,
\* 0 if it failed.
State ==
  [tun |-> tunnels, db |-> ue_teidin_db, next |-> next_id,
   marked |-> {}, failed |-> EmptyBag, teid |-> 0]

Has(s, t) == t \in DOMAIN s.tun

BearerTunnels(s, rnti, bearer) == {p[2] : p \in {q \in s.db[rnti] : q[1] = bearer}}

\* The front of a UE's sorted list.
FrontTunnel(s, rnti) ==
  Min(BearerTunnels(s, rnti, Min({p[1] : p \in s.db[rnti]})))

\* static_id_obj_pool::insert skips the identities whose slot is taken.
FreeIds(s) ==
  {t \in s.next .. s.next + MaxTunnels : \A u \in DOMAIN s.tun : t % MaxTunnels # u % MaxTunnels}

MayAllocate == next_id <= MaxTeid

AddTunnel(s, rnti, bearer) ==
  IF Cardinality(DOMAIN s.tun) = MaxTunnels
  THEN [s EXCEPT !.teid = 0]
  ELSE LET t == Min(FreeIds(s))
           full == Cardinality(s.db[rnti]) = MaxTunnelsPerUe
       IN IF full
          THEN [s EXCEPT !.next = t + 1, !.teid = 0]
          ELSE [s EXCEPT !.tun = (t :> NewTunnel(rnti, bearer)) @@ @,
                         !.db[rnti] = @ \cup {<<bearer, t>>},
                         !.next = t + 1, !.teid = t]

Activate_KeepBuffer(s, t) == [s EXCEPT !.tun[t].state = "pdcp_active"]

\* activate_tunnel: what is buffered goes to PDCP, and the buffer is freed.
Activate(s, t) ==
  IF s.tun[t].state = "pdcp_active"
  THEN s
  ELSE [s EXCEPT !.tun[t].buffer = NoBuffer, !.tun[t].state = "pdcp_active"]

Suspend_NoBuffer(s, t) ==
  IF s.tun[t].state # "pdcp_active" THEN s ELSE [s EXCEPT !.tun[t].state = "buffering"]

Suspend(s, t) ==
  IF s.tun[t].state # "pdcp_active"
  THEN s
  ELSE [s EXCEPT !.tun[t].buffer = 0, !.tun[t].state = "buffering"]

\* deactivate_tunnel takes the tunnel that forwards into t down with it.
Deactivate(s, t) ==
  LET forwarding == {u \in BearerTunnels(s, s.tun[t].rnti, s.tun[t].bearer) \ {t} :
                       s.tun[u].state = "forward_to" /\ s.tun[u].fwd_tunnel = t}
      down == {t} \cup IF s.tun[t].state = "forwarded_from" THEN forwarding ELSE {}
  IN [s EXCEPT !.tun = [u \in DOMAIN @ |->
                          IF u \in down THEN [@[u] EXCEPT !.state = "inactive"] ELSE @[u]]]

EraseTunnel(s, t) ==
  [s EXCEPT !.db[s.tun[t].rnti] = @ \ {<<s.tun[t].bearer, t>>},
            !.tun = Restrict(@, DOMAIN @ \ {t})]

RemoveTunnel_NoCallback(s, t) == EraseTunnel(Deactivate(s, t), t)

\* remove_tunnel, and on_removal, which the tunnel's destructor calls.
RECURSIVE RemoveTunnel(_, _)
RemoveTunnel(s, t) ==
  LET removal == s.tun[t].on_removal
      rest == EraseTunnel(Deactivate(s, t), t)
  IN IF removal.do = "nothing" \/ ~Has(rest, removal.teid) THEN rest
     ELSE IF removal.do = "activate" THEN Activate(rest, removal.teid)
     ELSE RemoveTunnel(rest, removal.teid)

SetPriority_NoSuspend(s, before, after) ==
  [s EXCEPT !.tun[before].on_removal = [do |-> "activate", teid |-> after],
            !.tun[before].rx_timer = IndirectTimeout]

\* set_tunnel_priority: `after' waits until `before' is removed.
SetPriority(s, before, after) ==
  [Suspend(s, after) EXCEPT
     !.tun[before].on_removal = [do |-> "activate", teid |-> after],
     !.tun[before].rx_timer = IndirectTimeout]

SetupForwarding(s, rx, tx) ==
  [s EXCEPT !.tun[rx].state = "forward_to", !.tun[rx].fwd_tunnel = tx,
            !.tun[tx].state = "forwarded_from",
            !.tun[rx].on_removal = [do |-> "remove", teid |-> tx]]

\* The lists of the UEs change hands, and the tunnels with them.
Renamed(s, old, new) ==
  [s EXCEPT !.db = [@ EXCEPT ![new] = s.db[old], ![old] = {}],
            !.tun = [t \in DOMAIN @ |->
                       IF @[t].rnti = old THEN [@[t] EXCEPT !.rnti = new] ELSE @[t]]]

ForwardingEnded(s, rnti) ==
  [s EXCEPT !.tun = [t \in DOMAIN @ |->
                       IF @[t].rnti = rnti /\ @[t].state = "forward_to"
                       THEN [@[t] EXCEPT !.state = "pdcp_active", !.fwd_tunnel = 0] ELSE @[t]]]

RemoveForwarded(s, rnti) ==
  FoldSet(LAMBDA t, acc : RemoveTunnel(acc, t), s,
          {t \in DOMAIN s.tun : s.tun[t].rnti = rnti /\ s.tun[t].state = "forwarded_from"})

UpdateRnti_ListOnly(s, old, new) ==
  [s EXCEPT !.db = [@ EXCEPT ![new] = s.db[old], ![old] = {}]]

UpdateRnti_KeepForward(s, old, new) == RemoveForwarded(Renamed(s, old, new), new)

UpdateRnti_KeepForwarded(s, old, new) == ForwardingEnded(Renamed(s, old, new), new)

\* update_rnti: the tunnels of `old' become those of `new', without those
\* that forwarded to another eNodeB.
UpdateRnti(s, old, new) ==
  IF s.db[old] = {} \/ s.db[new] # {}
  THEN s
  ELSE RemoveForwarded(ForwardingEnded(Renamed(s, old, new), new), new)

-----------------------------------------------------------------------------
(* Class gtpu.  `losses' is a bag: how often the End Marker of a tunnel       *)
(* cannot be sent, because make_byte_buffer or sendto fails.  No handler      *)
(* tries more than twice.                                                     *)

Losses ==
  UNION {[ts -> {1, 2}] : ts \in SUBSET {t \in DOMAIN tunnels : tunnels[t].state = "forwarded_from"}}

\* send_end_marker: the tunnel is deactivated only if the End Marker is sent.
SendEndMarker(s, t, losses) ==
  IF ~Has(s, t) THEN s
  ELSE IF CopiesIn(t, s.failed) < CopiesIn(t, losses)
  THEN [s EXCEPT !.failed = @ (+) SetToBag({t})]
  ELSE Deactivate([s EXCEPT !.marked = @ \cup {t}], t)

RemTunnel_NoMarker(s, t, losses) == IF ~Has(s, t) THEN s ELSE RemoveTunnel(s, t)

\* rem_tunnel: with an End Marker to the other eNodeB if data was forwarded.
RECURSIVE RemTunnel(_, _, _)
RemTunnel(s, t, losses) ==
  IF ~Has(s, t) THEN s
  ELSE LET tun == s.tun[t]
           rest == CASE tun.state = "forwarded_from" -> SendEndMarker(s, t, losses)
                     [] tun.state = "forward_to" ->
                          RemTunnel(SendEndMarker(s, tun.fwd_tunnel, losses), tun.fwd_tunnel, losses)
                     [] OTHER -> s
       IN RemoveTunnel(rest, t)

\* rem_bearer
RECURSIVE RemBearer(_, _, _, _)
RemBearer(s, rnti, bearer, losses) ==
  LET bearer_tuns == BearerTunnels(s, rnti, bearer)
  IN IF bearer_tuns = {} THEN s
     ELSE RemBearer(RemTunnel(s, Min(bearer_tuns), losses), rnti, bearer, losses)

\* rem_user
RECURSIVE RemUser(_, _, _)
RemUser(s, rnti, losses) ==
  IF s.db[rnti] = {} THEN s
  ELSE RemUser(RemTunnel(s, FrontTunnel(s, rnti), losses), rnti, losses)

\* add_bearer with flush_before_teidin
AddFlushBefore(s, rnti, bearer, main) ==
  LET a == AddTunnel(s, rnti, bearer)
  IN IF a.teid = 0 THEN a ELSE SetPriority(Suspend(a, a.teid), a.teid, main)

\* add_bearer with forward_from_teidin
AddForward(s, rnti, bearer, main) ==
  LET a == AddTunnel(s, rnti, bearer)
  IN IF a.teid = 0 THEN a
     ELSE IF Has(a, main) THEN SetupForwarding(a, main, a.teid)
     ELSE [RemTunnel(a, a.teid, EmptyBag) EXCEPT !.teid = 0]

SetManager(s) ==
  /\ tunnels' = s.tun /\ ue_teidin_db' = s.db
  /\ next_id' = s.next /\ marked' = s.marked /\ failed' = s.failed

BufferSdu_NoLimit(s, t) == [s EXCEPT !.tun[t].buffer = @ + 1]

\* buffer_pdcp_sdu
BufferSdu(s, t) ==
  IF s.tun[t].buffer = BufferSize THEN s ELSE [s EXCEPT !.tun[t].buffer = @ + 1]

\* handle_msg_data_pdu.  A tunnel that is not buffering passes the SDU on to
\* PDCP or to the other eNodeB, and nothing changes here.
DataPdu(t) ==
  /\ tunnels[t].state = "buffering"
  /\ SetManager(BufferSdu(State, t))
  /\ UNCHANGED rrc

\* handle_end_marker.  Nobody is told the TEID of a tunnel that is only
\* forwarded into.
EndMarker(t) ==
  /\ tunnels[t].state # "forwarded_from"
  /\ \E losses \in Losses :
       LET fwd == tunnels[t].fwd_tunnel
           rest == IF tunnels[t].state = "forward_to"
                   THEN RemTunnel(SendEndMarker(State, fwd, losses), fwd, losses) ELSE State
       IN SetManager(RemTunnel(rest, t, losses))
  /\ UNCHANGED rrc

\* The callback of rx_timer.  SDUs restart the timer, so it may take any time.
TimerExpires(t) ==
  /\ tunnels[t].rx_timer
  /\ SetManager(RemoveTunnel(State, t))
  /\ UNCHANGED rrc

-----------------------------------------------------------------------------
(* The calls of RRC. *)

AwaitsFlush(t) == \E b \in DOMAIN tunnels : tunnels[b].on_removal = [do |-> "activate", teid |-> t]

\* An E-RAB is set up: bearer_cfg_handler::add_gtpu_bearer
SetupErab(r, b) ==
  /\ ue[r] \in {"none", "here"} /\ teid_in[r][b] = 0
  /\ MayAllocate
  /\ LET s == AddTunnel(State, r, b)
     IN /\ SetManager(s)
        /\ teid_in' = [teid_in EXCEPT ![r][b] = s.teid]
  /\ ue' = [ue EXCEPT ![r] = "here"]
  /\ UNCHANGED <<pending_tunnels, rushed>>

\* bearer_cfg_handler::release_erab
ReleaseErab(r, b) ==
  /\ ue[r] \in {"arriving", "here", "departing"} /\ teid_in[r][b] # 0
  /\ \E losses \in Losses : SetManager(RemBearer(State, r, b, losses))
  /\ teid_in' = [teid_in EXCEPT ![r][b] = 0]
  /\ UNCHANGED <<ue, pending_tunnels, rushed>>

\* The E-RABs of a handover request, in order: their main tunnels ...
AddMains(s, r, bs) ==
  FoldLeft(LAMBDA acc, b :
             LET s1 == AddTunnel(acc.s, r, b) IN [s |-> s1, main |-> [acc.main EXCEPT ![b] = s1.teid]],
           [s |-> s, main |-> NoErabs], SetToSortSeq(bs, <))

\* ... and, where the source eNodeB forwards data, the tunnels flushed first.
AddFlushes(s, r, bs, main) ==
  FoldLeft(LAMBDA acc, b :
             LET s1 == AddFlushBefore(acc.s, r, b, main[b])
             IN [s |-> s1, pending |-> acc.pending \cup ({s1.teid} \ {0}),
                 refused |-> IF s1.teid = 0 THEN acc.refused \cup {b} ELSE acc.refused],
           [s |-> s, pending |-> {}, refused |-> {}], SetToSortSeq(bs, <))

\* The target eNodeB of a handover: handle_ho_requested.  With no E-RAB
\* admitted, or when something else fails, the UE is given up.
HandoverIn(r, bs, forwarded) ==
  /\ ue[r] = "none"
  /\ MayAllocate
  /\ LET m == AddMains(State, r, bs)
         set == {b \in bs : m.main[b] # 0}
         f == AddFlushes(m.s, r, set \cap forwarded, m.main)
     IN /\ SetManager(f.s)
        /\ teid_in' = [teid_in EXCEPT ![r] = m.main]
        /\ pending_tunnels' = [pending_tunnels EXCEPT ![r] = f.pending]
        /\ \/ ue' = [ue EXCEPT ![r] = "leaving"]
           \/ ~(set \subseteq f.refused) /\ ue' = [ue EXCEPT ![r] = "arriving"]
  /\ UNCHANGED rushed

\* rrc_mobility::handle_recfg_complete: the UE has arrived.
RecfgComplete(r) ==
  /\ ue[r] = "arriving"
  /\ SetManager(FoldSet(LAMBDA t, acc : IF Has(acc, t) THEN Activate(acc, t) ELSE acc,
                        State, pending_tunnels[r]))
  /\ ue' = [ue EXCEPT ![r] = "here"]
  /\ pending_tunnels' = [pending_tunnels EXCEPT ![r] = {}]
  /\ UNCHANGED <<teid_in, rushed>>

\* The source eNodeB of a handover: start_enb_status_transfer, which
\* forwards the data of the E-RABs in `forwarded'.
HandoverOut(r, forwarded) ==
  /\ ue[r] = "here"
  /\ \A b \in forwarded : teid_in[r][b] # 0
  /\ MayAllocate
  /\ SetManager(FoldLeft(LAMBDA acc, b : AddForward(acc, r, b, teid_in[r][b]),
                         State, SetToSortSeq(forwarded, <)))
  /\ ue' = [ue EXCEPT ![r] = "departing"]
  /\ rushed' = rushed \cup {t \in {teid_in[r][b] : b \in forwarded} : AwaitsFlush(t)}
  /\ UNCHANGED <<teid_in, pending_tunnels>>

\* handle_rrc_con_reest_req: the UE is back under another RNTI.  The context
\* of the old one is removed later.
Reestablish(old, new) ==
  /\ ue[old] \in {"arriving", "here", "departing"} /\ ue[new] = "none"
  /\ SetManager(UpdateRnti(State, old, new))
  /\ ue' = [ue EXCEPT ![old] = "leaving", ![new] = "here"]
  /\ teid_in' = [teid_in EXCEPT ![new] = teid_in[old], ![old] = NoErabs]
  /\ pending_tunnels' = [pending_tunnels EXCEPT ![old] = {}]
  /\ UNCHANGED rushed

\* rrc::rem_user
RemoveUe(r) ==
  /\ ue[r] # "none"
  /\ \E losses \in Losses : SetManager(RemUser(State, r, losses))
  /\ ue' = [ue EXCEPT ![r] = "none"]
  /\ teid_in' = [teid_in EXCEPT ![r] = NoErabs]
  /\ pending_tunnels' = [pending_tunnels EXCEPT ![r] = {}]
  /\ UNCHANGED rushed

Network == \E t \in DOMAIN tunnels : DataPdu(t) \/ EndMarker(t) \/ TimerExpires(t)

Rrc ==
  \E r \in Rntis :
    \/ \E b \in Bearers : SetupErab(r, b) \/ ReleaseErab(r, b)
    \/ \E bs \in SUBSET Bearers \ {{}} : \E forwarded \in SUBSET bs : HandoverIn(r, bs, forwarded)
    \/ RecfgComplete(r)
    \/ \E forwarded \in SUBSET Bearers : HandoverOut(r, forwarded)
    \/ \E new \in Rntis \ {r} : Reestablish(r, new)
    \/ RemoveUe(r)

Next == Network \/ Rrc

Spec == Init /\ [][Next]_vars

-----------------------------------------------------------------------------
(* Properties. *)

\* Every variable has its type; no buffer and no list outgrows its limit.
TypeOK ==
  /\ \A t \in DOMAIN tunnels : t \in Teids /\ tunnels[t] \in Tunnels
  /\ Cardinality(DOMAIN tunnels) <= MaxTunnels
  /\ \A r \in Rntis : ue_teidin_db[r] \subseteq Bearers \X Teids
                      /\ Cardinality(ue_teidin_db[r]) <= MaxTunnelsPerUe
  /\ next_id \in Teids /\ marked \subseteq Teids /\ rushed \subseteq Teids
  /\ BagToSet(failed) \subseteq Teids
  /\ ue \in [Rntis -> {"none", "arriving", "here", "departing", "leaving"}]
  /\ teid_in \in [Rntis -> [Bearers -> Nat]]
  /\ pending_tunnels \in [Rntis -> SUBSET Teids]

\* The list of each UE holds exactly its tunnels: remove_tunnel finds the
\* entry it asserts to be there, and no UE that is gone has a tunnel left.
DbConsistent ==
  /\ \A r \in Rntis :
       ue_teidin_db[r] = {<<tunnels[t].bearer, t>> : t \in {u \in DOMAIN tunnels : tunnels[u].rnti = r}}
  /\ \A r \in Rntis : ue[r] = "none" => ue_teidin_db[r] = {}

\* The pointer fwd_tunnel of a tunnel whose SDUs are forwarded leads to a
\* tunnel of the same bearer that is forwarded into, and, unless the UE was
\* handed over before its own flush was over, no tunnel that is forwarded
\* into has lost the one that feeds it.
ForwardingPaired ==
  /\ \A t \in DOMAIN tunnels : tunnels[t].state = "forward_to" =>
       LET tx == tunnels[t].fwd_tunnel
       IN /\ tx \in DOMAIN tunnels /\ tunnels[tx].state = "forwarded_from"
          /\ tunnels[tx].rnti = tunnels[t].rnti /\ tunnels[tx].bearer = tunnels[t].bearer
  /\ \A tx \in DOMAIN tunnels : tunnels[tx].state = "forwarded_from" =>
       \E t \in DOMAIN tunnels :
         \/ tunnels[t].state = "forward_to" /\ tunnels[t].fwd_tunnel = tx
         \/ t \in rushed /\ tunnels[t].on_removal.teid = tx

\* A tunnel that is to be activated, when another is removed or when its UE
\* has arrived, has the buffer activate_tunnel empties, or is active.
BufferThere ==
  \A t \in DOMAIN tunnels :
    (AwaitsFlush(t) \/ \E r \in Rntis : t \in pending_tunnels[r]) =>
      tunnels[t].state = "pdcp_active" \/ tunnels[t].buffer # NoBuffer

\* No SDU of a main tunnel goes to PDCP before the tunnel from the source
\* eNodeB, whose SDUs are older, has been flushed and removed; unless the UE
\* was meanwhile handed over to a third eNodeB.
FlushedFirst ==
  \A t \in DOMAIN tunnels \ rushed : AwaitsFlush(t) => tunnels[t].state = "buffering"

\* No SDU is left behind in a tunnel that no longer buffers, with the same
\* exception.
NothingStranded ==
  \A t \in DOMAIN tunnels \ rushed : tunnels[t].buffer > 0 => tunnels[t].state = "buffering"

\* A main tunnel that buffers waits for a tunnel that is still there, and
\* whose removal activates it: its SDUs do not wait for ever.
SomeoneActivates ==
  \A r \in Rntis, b \in Bearers :
    LET t == teid_in[r][b]
    IN t \in DOMAIN tunnels /\ tunnels[t].state = "buffering" => AwaitsFlush(t)

\* While a UE is served here, the SDUs of its E-RABs go to its own PDCP, now
\* or after the flush, also when it came back from a failed handover.
ServedHere ==
  \A r \in Rntis, b \in Bearers :
    LET t == teid_in[r][b]
    IN ue[r] = "here" /\ t \in DOMAIN tunnels => tunnels[t].state \in {"pdcp_active", "buffering"}

\* A tunnel data was forwarded into is removed by a handler that has sent its
\* End Marker to the target eNodeB, or that has tried twice, once before the
\* removal and once in it, and failed both times: one failed attempt does not
\* lose the End Marker.  Otherwise the UE came back, or the same exception.
EndMarkerSent ==
  [][\A tx \in DOMAIN tunnels \ DOMAIN tunnels' :
       tunnels[tx].state = "forwarded_from" =>
         \/ tx \in marked'
         \/ CopiesIn(tx, failed') = 2
         \/ \E t \in rushed \cap DOMAIN tunnels : tunnels[t].on_removal.teid = tx
         \/ ue[tunnels[tx].rnti] = "departing" /\ ue'[tunnels[tx].rnti] = "leaving"]_vars
=============================================================================
