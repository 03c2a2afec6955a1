SPECIFICATION Spec
CONSTANTS
    Levels = 2
    Fan = 2
    TlbSize = 2
    AsidLimit = 3
    PpnLimit = 7
    Ram = {1, 2, 4, 5}
    Asids = {0, 1}
    Guests = {{"fetch", "load", "store", "amo", "rights", "bare"},
              {"load", "store", "spaces", "super"}}
    MaxWrites = 1
INVARIANTS MmuInv ReachesMappedPage FaultsOnlyIfDenied
PROPERTIES WalkEnds
