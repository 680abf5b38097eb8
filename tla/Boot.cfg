\* Two tasks and two networks: a name from one and a passphrase from the other.
CONSTANTS
  Tasks = {t1, t2}
  Creds = {home, office}
  Uris = {broker}
  NoTask = none
SPECIFICATION Spec
INVARIANTS
  TypeOK
  PassphraseFits
  RestartsIntoNewImage
PROPERTY
  BoardComesUp
