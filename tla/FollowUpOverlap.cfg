SPECIFICATION Spec
CONSTANTS
  r1 = r1
  r2 = r2
  ann = ann
  bob = bob
  Reports = {r1, r2}
  Addresses = {ann, bob}
  AddressOf <- TwoPeople
  MaxPhotos = 1
  Workers = {w1, w2}
  MaxStatus = 2
  MaxUploads = 3
  MaxCrashes = 1
SYMMETRY Symmetry
INVARIANTS
  
  SubscribersTold
PROPERTIES
  OptOutStays
