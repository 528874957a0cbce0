---------------------------- MODULE MCFlashGate ----------------------------
(* Instances of FlashGate for TLC. *)
EXTENDS FlashGate

\* A fastboot bundle of two images, a sideload package and a Samsung package.
MCModeOf ==
  [b \in Bundles |-> CASE b = "fast" -> "fastboot_images"
                       [] b = "ota"  -> "adb_sideload"
                       [] b = "odin" -> "heimdall_flash"]
MCPartsOf ==
  [b \in Bundles |-> CASE b = "fast" -> <<"flash_boot", "flash_system">>
                       [] b = "ota"  -> <<"sideload_update">>
                       [] b = "odin" -> <<"flash_samsung">>]
MCParts == {"flash_boot", "flash_system", "sideload_update", "flash_samsung"}

\* The default policy, the same with live actions allowed, and a lax one.
MCPolicies == {[live |-> FALSE, phrase |-> TRUE, restore |-> TRUE],
               [live |-> TRUE, phrase |-> TRUE, restore |-> TRUE],
               [live |-> TRUE, phrase |-> FALSE, restore |-> FALSE]}
MCLive == {[live |-> TRUE, phrase |-> TRUE, restore |-> TRUE]}
=============================================================================
