----------------------------- MODULE MCPlatform -----------------------------
(***************************************************************************)
(* Small instances of five parts of the program that share no state, in    *)
(* one run: a behaviour is one of one part, and the others rest.           *)
(***************************************************************************)
EXTENDS AuthSessions, ChatMemory, AssetStore, CardCheckout, VoiceSession, TLC

CONSTANTS u1, u2

VARIABLE part

parts == <<authVars, memoryVars, storeVars, checkoutVars, voiceVars>>

Init ==
  /\ AuthInit /\ MemoryInit /\ StoreInit /\ CheckoutInit /\ VoiceInit
  /\ part \in {"auth", "memory", "store", "checkout", "voice"}

Next ==
  /\ UNCHANGED part
  /\ \/ part = "auth" /\ AuthNext /\ UNCHANGED <<memoryVars, storeVars, checkoutVars, voiceVars>>
     \/ part = "memory" /\ MemoryNext /\ UNCHANGED <<authVars, storeVars, checkoutVars, voiceVars>>
     \/ part = "store" /\ StoreNext /\ UNCHANGED <<authVars, memoryVars, checkoutVars, voiceVars>>
     \/ part = "checkout" /\ CheckoutNext /\ UNCHANGED <<authVars, memoryVars, storeVars, voiceVars>>
     \/ part = "voice" /\ VoiceNext /\ UNCHANGED <<authVars, memoryVars, storeVars, checkoutVars>>

Spec == Init /\ [][Next]_<<part, parts>>

\* Requests, workers and connections are alike.
Alike == Permutations({u1, u2})

=============================================================================
