---------------------------- MODULE WorkerBanks ----------------------------
(***************************************************************************)
(* The GPU worker's side of the RAM time sharing: WorkerBanks in           *)
(* experiments/radiance-public/radiance_fair_scheduler.py.                 *)
(*                                                                         *)
(* The GPU holds the KV cache of one chat bank at a time.  Every other     *)
(* bank the scheduler keeps is a packed image in one of MaxBanks - 1       *)
(* pinned RAM buffers, allocated before the server is ready                *)
(* (prepare_handover_pool).  The scheduler's frame carries the bank the    *)
(* step runs on and the banks that were retired; Before(md) is what the    *)
(* worker does with it ahead of the forward pass.                          *)
(*                                                                         *)
(* Image contents are abstracted to the bank they belong to; the copy      *)
(* through the staging buffer is modelled page by page in BankSwap.        *)
(***************************************************************************)
EXTENDS Integers, FiniteSets

CONSTANTS
    Key,        \* bank keys: "<chat id>:<generation>"
    None,       \* Python's None
    MaxBanks    \* max_cached_chats: the GPU bank and the RAM images together

ASSUME WorkerAssumption ==
    /\ None \notin Key
    /\ MaxBanks \in Nat
    /\ MaxBanks >= 2

VARIABLES
    gpuBank,    \* WorkerBanks.active: the bank whose pages are on the GPU
    images,     \* keys of WorkerBanks.images
    free,       \* len(WorkerBanks.free_buffers)
    raised      \* the exception that ended the engine, or "none"

workerVars == <<gpuBank, images, free>>

WorkerErrors == {"discard_not_retired", "successor_has_image", "ram_exhausted"}

WorkerInit ==
    /\ gpuBank = None
    /\ images = {}
    /\ free = MaxBanks - 1

\* Retired images give their buffers back before anything else happens.
Kept(md) == images \ md.drops

\* Mutant: the buffers of retired images are not returned to the pool.
SpareLeaking(md) == free

Spare(md) == free + Cardinality(images \cap md.drops)

\* An exception in before() is not caught: the engine ends, with the retired
\* images already dropped.
Raise(error, md) ==
    /\ raised' = error
    /\ images' = Kept(md)
    /\ free' = Spare(md)
    /\ UNCHANGED gpuBank

\* Same bank (or the first bank ever): no bytes move.
StayOrAdopt(md) ==
    /\ md.bank = gpuBank \/ gpuBank = None
    /\ gpuBank' = md.bank
    /\ images' = Kept(md)
    /\ free' = Spare(md)
    /\ UNCHANGED raised

\* The GPU bank is obsolete: the next bank overwrites it, nothing is saved.
DiscardActive(md) ==
    /\ md.bank # gpuBank /\ gpuBank # None
    /\ md.discard
    /\ CASE gpuBank \notin md.drops -> Raise("discard_not_retired", md)
         [] gpuBank \in md.drops /\ md.bank \in Kept(md) -> Raise("successor_has_image", md)
         [] OTHER -> /\ gpuBank' = md.bank
                     /\ images' = Kept(md)
                     /\ free' = Spare(md)
                     /\ UNCHANGED raised

\* The GPU bank's pages go to RAM; the target's image, if any, comes back
\* through the same buffer.  A GPU bank that is itself retired leaves no image.
SwapBanks(md) ==
    /\ md.bank # gpuBank /\ gpuBank # None
    /\ ~md.discard
    /\ IF md.bank \notin Kept(md) /\ Spare(md) = 0
       THEN Raise("ram_exhausted", md)
       ELSE LET saved == {gpuBank} \ md.drops
                rest  == Kept(md) \ {md.bank}
            IN /\ gpuBank' = md.bank
               /\ images' = rest \cup saved
               /\ free' = Spare(md) + Cardinality(Kept(md) \cap {md.bank})
                            - Cardinality(saved)
               /\ UNCHANGED raised

\* WorkerBanks.before(metadata)
Before(md) ==
    \/ md.bank = None /\ UNCHANGED <<workerVars, raised>>
    \/ md.bank # None /\ StayOrAdopt(md)
    \/ md.bank # None /\ DiscardActive(md)
    \/ md.bank # None /\ SwapBanks(md)
=============================================================================
