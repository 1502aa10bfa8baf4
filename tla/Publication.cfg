CONSTANTS
  c1 = c1
  c2 = c2
  Content = {c1, c2}
  NoContent = NoContent
  Seeded = {c1}
  r1 = r1
  r2 = r2
  Request = {r1, r2}
  f1 = f1
  f2 = f2
  Form = {f1, f2}
  OtherFlag = {TRUE, FALSE}

SPECIFICATION PublicationSpec
INVARIANTS
  PublicationTypeOK
  

  
SYMMETRY Symmetry
