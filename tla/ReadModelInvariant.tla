-------------------------- MODULE ReadModelInvariant --------------------------
(***************************************************************************)
(* The inductive invariant of the read model.  A view is the projection of *)
(* some of the rows of its wallet: of all of them under settings.DEBUG, of *)
(* a prefix of the stream without it.  What makes it inductive is          *)
(*   - LockHeld: a projected append and a rebuild hold the row lock of     *)
(*     projection_state from their first read to their commit;             *)
(*   - Replaying: the view a rebuild has computed so far is that of the    *)
(*     rows it has replayed, and these are a prefix of the stream when the *)
(*     clocks of the workers agree;                                        *)
(*   - TimesOrdered: created_at then grows along every stream.             *)
(* Owner and balance need no agreement of the clocks: a replay in another  *)
(* order adds up to the same, or is refused.  The status does: without it  *)
(* it is that of some lifecycle event of the stream.                       *)
(***************************************************************************)
EXTENDS WalletReadModel, WalletInvariant

\* A view agrees with a set of rows of its wallet.
Agrees(v, rows) ==
  IF rows = {} THEN v = NoView
  ELSE /\ \E c \in rows : c.kind = "created" /\ c.user = v.user
       /\ \E r \in LifecycleRows(rows) : v.status = StatusAfter(r.kind)
       /\ v.balance = MapThenSumSet(Delta, rows)
       /\ InOrder => v.status = StatusOf(rows)

\* Where a prefix of a stream may end.
Cuts(w) == {0} \cup {r.version + 1 : r \in Rows(w)}

AgreesWithPrefix(v, w, cut) ==
  /\ Agrees(v, Before(w, cut))
  /\ Debug => Before(w, cut) = Rows(w)

ViewsAgree == \A w \in Wallets : \E cut \in Cuts(w) : AgreesWithPrefix(read_model[w], w, cut)

\* The rows of a wallet that a rebuild has replayed, of those it selected.
Replayed(w, cut) == Before(w, cut) \ rb_todo

Replaying ==
  rb_pc = "replay" =>
    \A w \in Wallets : \E cut \in Cuts(w) :
      /\ \A r \in rb_todo : r.wallet = w => r \in Before(w, cut)
      /\ Debug => Before(w, cut) = Rows(w)
      /\ Agrees(rb_model[w], Replayed(w, cut))
      /\ InOrder => \A r \in Replayed(w, cut), s \in rb_todo :
                      s.wallet = w => r.version < s.version

LockHeld ==
  /\ proj_version = 1
  /\ rb_pc # "idle" => proj_lock = "rebuild" /\ rebuilds # 0
  /\ \A p \in Workers :
       /\ pc[p] = "project" => Debug
       /\ pc[p] = "commit" /\ Debug => proj_lock = p

\* The view a worker is about to commit.
ViewHeld(p) ==
  pc[p] = "commit" /\ Debug =>
    /\ Accepts(read_model[row[p].wallet], row[p])
    /\ view[p] = Projected(read_model[row[p].wallet], row[p])

ViewsHeld == \A p \in Workers : ViewHeld(p)

TodoStored == rb_todo \subseteq event_store

TimesOrdered ==
  EqualClocks =>
    /\ \A r, s \in event_store : r.wallet = s.wallet /\ r.version < s.version => r.at < s.at
    /\ \A r \in event_store, p \in Workers : r.at < Cardinality(event_store) + ClockOffset[p]
    /\ \A p \in Workers : pc[p] \in TxSteps =>
         /\ row[p].at <= Cardinality(event_store) + ClockOffset[p]
         /\ \A s \in Rows(row[p].wallet) : s.at < row[p].at

ReadModelInv ==
  /\ ViewsAgree
  /\ Replaying
  /\ LockHeld
  /\ ViewsHeld
  /\ TodoStored
  /\ TimesOrdered

===============================================================================
