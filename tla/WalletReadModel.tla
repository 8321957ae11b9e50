--------------------------- MODULE WalletReadModel ---------------------------
(***************************************************************************)
(* What wallet_read_model shows of event_store: the properties that relate *)
(* the view a client reads to the events that are stored, and the          *)
(* refinement of the atomic account by the command path when settings.DEBUG*)
(* projects every append synchronously.                                    *)
(***************************************************************************)
EXTENDS WalletCommandPath, FiniteSetsExt

(***************************************************************************)
(* The view a stream should give, computed from the set of its events      *)
(* rather than by replaying them: the user of its creation, the status of  *)
(* its last lifecycle event, the sum of what its events add to the balance.*)
(***************************************************************************)
Creator(rows) == (CHOOSE r \in rows : r.kind = "created").user

ViewOf(rows) ==
  IF rows = {} THEN NoView
  ELSE [ user    |-> Creator(rows),
         status  |-> StatusOf(rows),
         balance |-> MapThenSumSet(Delta, rows) ]

EqualClocks == \A p, q \in Workers : ClockOffset[p] = ClockOffset[q]

\* When a replay by created_at is a replay by version: the clocks of the workers
\* agree, or nothing is rebuilt.
InOrder == EqualClocks \/ MaxRebuilds = 0

\* A view shows some rows of its wallet.  Its owner and its balance do so whatever the
\* clocks say; a rebuild out of order can leave the status of another of these rows.
Shows(v, rows) ==
  /\ v.user = ViewOf(rows).user
  /\ v.balance = ViewOf(rows).balance
  /\ \/ v.status = ViewOf(rows).status
     \/ ~InOrder /\ \E r \in LifecycleRows(rows) : v.status = StatusAfter(r.kind)

\* With settings.DEBUG the view of every wallet shows exactly its stored events, at
\* every commit: an append commits event and view together, and an append racing
\* a rebuild is neither lost nor applied twice.
ReadModelMatchesStore ==
  Debug => \A w \in Wallets : Shows(read_model[w], Rows(w))

\* Without it the view is stale, but still shows a prefix of the stream, never a
\* mixture, although a rebuild replays the events by the clocks of those who stored them.
ReadModelIsPrefix ==
  \A w \in Wallets :
    \E version \in {0} \cup {r.version + 1 : r \in Rows(w)} :
      Shows(read_model[w], Before(w, version))

MoneyRows(rows) == {r \in rows : r.kind \in MoneyKinds}

\* Whatever withdrawals and payments race, a wallet never spends what it does not have:
\* a debit the projector refuses is not stored.  It checks funds in rounded amounts, so
\* what is stored may add up to less than zero, by half a unit of the balance for each
\* event that moved money and by no more.
LedgerSolvent ==
  \A w \in Wallets :
    2 * MapThenSumSet(Booked, Rows(w)) >= -(QuantizeExp * Cardinality(MoneyRows(Rows(w))))

\* The command path under DEBUG implements the atomic account: each commit is one
\* operation, legal at that moment, and a rebuild changes nothing.  An amount that
\* rounds to nothing is an operation that moves nothing.
Account ==
  INSTANCE WalletAccount WITH account <- read_model, Amounts <- 0 .. MaxAmount

AccountSpec == Account!Spec

=============================================================================
