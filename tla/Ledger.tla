-------------------------------- MODULE Ledger --------------------------------
(***************************************************************************)
(* What the authority reports about capacity (Authority::ledger,           *)
(* CapacityLedger).  The ledger of a path is derived from the same tables  *)
(* as allocatable, which decides about a reservation, but by a computation *)
(* of its own: the property compares the two.                              *)
(***************************************************************************)
EXTENDS Authority

reclaimable(p) == Total(GrantsOn(p, LAMBDA r : is_reclaimable(r.state)))

CapacityLedger ==
    [authoritative_usable : Nat, committed : Nat, withdrawing : Nat, reserved : Nat,
     protected_headroom : Nat, unavailable : Nat, free : Nat, allocatable : Nat,
     reclaimable : Nat, oversubscribed : Nat, authorized_extension : Nat]

ASSUME LedgerAssumption == Nil \notin CapacityLedger

LedgerBasis(led) == led.authoritative_usable + led.authorized_extension

Allocated(led) == led.committed + led.withdrawing + led.reserved

\* CapacityLedger::verify_closure: every unit is accounted for exactly once.
verify_closure(led) ==
    /\ led.free + led.committed + led.reserved + led.protected_headroom + led.unavailable
            = LedgerBasis(led) + led.oversubscribed
    /\ led.reclaimable <= Allocated(led)

Extension(p) ==
    oversubscription_extension(paths[p].authoritative_usable,
                               live_oversubscription_bps(p, paths[p], policy, 0))

\* The part of a that b leaves.
Less(a, b) == IF a > b THEN a - b ELSE 0

\* What is being withdrawn counts as allocatable.
LedgerOf_IgnoresWithdrawing(p) ==
    LET rec        == paths[p]
        held       == committed(p)
        leaving    == withdrawing(p)
        set_aside  == reserved(p)
        headroom   == protected_headroom(p)
        extension  == Extension(p)
        basis      == rec.authoritative_usable + extension
        structural == held + set_aside + headroom + rec.unavailable
        blocked    == structural + minimum_free(rec, policy)
    IN  [authoritative_usable |-> rec.authoritative_usable, committed |-> held,
         withdrawing |-> leaving, reserved |-> set_aside,
         protected_headroom |-> headroom, unavailable |-> rec.unavailable,
         free |-> Less(basis, structural), allocatable |-> Less(basis, blocked),
         reclaimable |-> reclaimable(p), oversubscribed |-> Less(structural, basis),
         authorized_extension |-> extension]

\* The figures of a path's ledger.
LedgerOf(p) ==
    LET rec        == paths[p]
        held       == committed(p)
        leaving    == withdrawing(p)
        set_aside  == reserved(p)
        headroom   == protected_headroom(p)
        extension  == Extension(p)
        basis      == rec.authoritative_usable + extension
        structural == held + set_aside + headroom + rec.unavailable
        blocked    == structural + leaving + minimum_free(rec, policy)
    IN  [authoritative_usable |-> rec.authoritative_usable, committed |-> held,
         withdrawing |-> leaving, reserved |-> set_aside,
         protected_headroom |-> headroom, unavailable |-> rec.unavailable,
         free |-> Less(basis, structural), allocatable |-> Less(basis, blocked),
         reclaimable |-> reclaimable(p), oversubscribed |-> Less(structural, basis),
         authorized_extension |-> extension]

\* Authority::ledger: Nil where it returns an error instead.
ledger(p) ==
    LET led == LedgerOf(p)
    IN  IF /\ paths[p] # Nil
           /\ led.unavailable <= led.authoritative_usable
           /\ LedgerBasis(led) <= kAmountMax
           /\ Allocated(led) + led.protected_headroom + led.unavailable
                  + minimum_free(paths[p], policy) <= kAmountMax
           /\ verify_closure(led)
        THEN led ELSE Nil

------------------------------------------------------------------------------
(* Properties *)

\* The ledger of a path can always be drawn up.  What it calls allocatable and what
\* reserve_grant would accept agree, except that protected grants are counted
\* against the floor by the one and not by the other: the ledger never promises less,
\* and never more than that much.
LedgerErrorBounded ==
    \A p \in Entries(paths) :
        LET led       == ledger(p)
            grantable == allocatable(p, "General", 0)
        IN  /\ led # Nil
            /\ grantable <= led.allocatable
            /\ led.allocatable
                   <= grantable + min_amount(protected_held(p), protected_floor(paths[p], policy))
===============================================================================
