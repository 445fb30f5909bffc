CONSTANTS
  Digests <- MCDigests
  KnownDigests <- MCKnownDigests
  Canonical = "sha256"
  Given <- MCGiven
  Records <- MCRecords
  NoFlag = NoFlag
SPECIFICATION Spec
INVARIANT AdvertisedAddressChosen
