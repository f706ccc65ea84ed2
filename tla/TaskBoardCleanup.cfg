SPECIFICATION Spec
CONSTANTS
  w1 = w1  w2 = w2  w3 = w3  r1 = r1  r2 = r2  t1 = t1  t2 = t2
  i1 = i1  i2 = i2  i3 = i3  i4 = i4  i5 = i5
  Workers = {w1, w2}
  Recoverers = {r1}
  Tasks = {t1}
  Inodes = {i1, i2, i3}
  NoInode = NoInode  NoTask = NoTask  Nobody = Nobody
  Recovery = {"cleanup"}
  Silent = {w1, w2}
  MaxRetries = 1  MaxDeaths = 1  MaxOutages = 0
SYMMETRY Symmetry
INVARIANT NoTaskLost
